---- MODULE Spec2Model ----
(***************************************************************************)
(* Calendar synchronisation engine of Task Genius: the OAuth/PKCE engine   *)
(* (CalendarAuthManager), the token-REST providers (Google, Outlook) and   *)
(* the CalDAV provider (Apple), modelled as state machines.                *)
(*                                                                         *)
(* Several specifications share the variables of the module; each one      *)
(* drives one part of the program and leaves the other variables alone:    *)
(*   SpecAuth   the OAuth flow, the loopback listener, the callbacks       *)
(*   SpecPorts  the start of concurrent OAuth flows and their listeners     *)
(*   SpecCallback the callbacks up to the account-email lookup              *)
(*   SpecTeardown the flows and their callbacks around onunload             *)
(*   SpecDisconnect the token of a provider around disconnect()             *)
(*   SpecSweep the provider cache around disconnectAll                      *)
(*   SpecOverlap two overlapping getEvents calls on one provider           *)
(*   SpecDiscovery the CalDAV discovery of listCalendars                    *)
(*   SpecWrite  updateEvent / deleteEvent against a versioned remote event *)
(*   SpecFetch  getEvents over several calendars                           *)
(*   SpecToken  ensureValidToken and the 401 refresh-and-retry             *)
(*   SpecDates  the all-day end date conversions                           *)
(*   SpecConvert the PATCH bodies and the enum conversions on read         *)
(*   SpecManager CalendarSourceManager and the providers' disconnect       *)
(***************************************************************************)
EXTENDS Integers, Sequences, FiniteSets, TLC

VARIABLES
    \* ---- CalendarAuthManager (SpecAuth) ----
    now,              \* Date.now(), in milliseconds
    pendingRequests,  \* state token -> PendingOAuthRequest, NoRequest when absent
    callbackServer,   \* this.callbackServer: a server id, 0 for null
    callbackPort,     \* this.callbackPort
    srv,              \* the http.Server objects created by tryPort, one per flow
    flow,             \* the startOAuthFlow invocations
    externalBusy,     \* ports of the range held by other processes
    eventListeners,   \* this.eventListeners: the number of subscribers
    timers,           \* pending setTimeout(() => stopCallbackServer(), 1000)
    postLog,          \* token POSTs issued by exchangeCodeForTokens
    postCount,        \* state token -> number of token POSTs issued for it
    exchange,         \* state token -> "none" | "inflight" | "ok" | "failed"
    \* ---- updateEvent / deleteEvent (SpecWrite) ----
    remote,           \* the event resource on the server and its version tag
    wcall,            \* the write call: arguments, position, requests, statuses
    wresult,          \* the WriteResult the call returned
    \* ---- getEvents (SpecFetch) ----
    fcall,            \* the getEvents call: provider, position, per-calendar fetches
    fresult,          \* what getEvents returned (allEvents) or that it threw
    currentStatus,    \* CalendarProviderBase.currentStatus.status
    isSyncing,        \* CalendarProviderBase.isSyncing
    aborted,          \* options.signal.aborted
    \* ---- tokens (SpecToken) ----
    auth,             \* provider.config.auth: the stored OAuthTokenData
    req,              \* the authenticated API request in progress
    ev,               \* the ensureValidToken invocation in progress or last settled
    \* ---- all-day dates (SpecDates) ----
    zone,             \* the local time zone: the days on which the clocks change
    conv,             \* the all-day end date being written and read back
    \* ---- field conversions (SpecConvert) ----
    mapped,           \* the last conversion applied: its input and its output
    \* ---- CalendarSourceManager (SpecManager) ----
    providers,        \* this.providers: source id -> provider instance, 0 absent
    instances,        \* the provider objects ever constructed
    removals,         \* the removeProvider invocations in progress
    last,             \* the last getProvider or removeProvider call that returned
    sweep,            \* the disconnectAll invocation
    \* ---- AppleCaldavProvider.listCalendars (SpecDiscovery) ----
    discovery,        \* the listCalendars call: position, requests, responses
    \* ---- a second getEvents call on the same provider (SpecOverlap) ----
    overlap           \* its position: "idle", "fetching" or "done"

authVars == <<now, pendingRequests, callbackServer, callbackPort, srv,
              flow, externalBusy, eventListeners, timers, postLog, postCount,
              exchange>>
writeVars == <<remote, wcall, wresult>>
fetchVars == <<fcall, fresult, currentStatus, isSyncing, aborted>>
tokenVars == <<auth, req, ev>>
dateVars == <<zone, conv>>
convVars == <<mapped>>
mgrVars == <<providers, instances, removals, last, sweep>>
callVars == <<discovery, overlap>>
\* authVars without the clock, fetchVars without the status.
authRest == <<pendingRequests, callbackServer, callbackPort, srv, flow,
              externalBusy, eventListeners, timers, postLog, postCount, exchange>>
fetchRest == <<fcall, fresult, isSyncing, aborted>>

vars == <<authVars, writeVars, fetchVars, tokenVars, dateVars, convVars,
          mgrVars, callVars>>

\* ------------------------------------------------------------------------
\* Bounds of the model
\* ------------------------------------------------------------------------
MaxFlows == 2
MaxTicks == 1
MaxPosts == 2
MaxTimers == 1

\* ------------------------------------------------------------------------
\* Program constants
\* ------------------------------------------------------------------------
OAUTH_CALLBACK_PORT_START == 42813
OAUTH_CALLBACK_PORT_END == 42823
PENDING_REQUEST_TIMEOUT_MS == 10 * 60 * 1000
TOKEN_REFRESH_BUFFER_MS == 5 * 60 * 1000

Providers == {"google", "outlook"}
\* The flows that can be started. SpecAuth, which also delivers the
\* callbacks, starts the first MaxFlows of them; SpecPorts starts them all.
Flows == 1..(MaxFlows + 1)
StartedWithCallbacks == 1..MaxFlows
\* generateState(): 32 random bytes; flow f draws the fresh token f.
States == Flows
\* A state value no flow ever issued.
UnknownState == MaxFlows + 2
NoRequest == [provider |-> "none"]
\* The clock advances in steps of one second more than the pending-request
\* timeout: an entry is older than the timeout one step after its creation.
Delay == 10 * 60 * 1000 + 1000

PortRange == OAUTH_CALLBACK_PORT_START..OAUTH_CALLBACK_PORT_END

\* ------------------------------------------------------------------------
\* CalendarAuthManager
\* ------------------------------------------------------------------------
NoServer == [status |-> "none", port |-> 0]
\* The provider each flow is started for: google, outlook, google, ...
ProviderOf(f) == IF f % 2 = 1 THEN "google" ELSE "outlook"
\* The authorization URL a flow has opened: its query parameters.
NoUrl == [client_id |-> "", code_challenge |-> <<>>,
          code_challenge_method |-> "", state |-> 0, redirect_uri |-> 0]
\* A flow: its position, the client id it read, the events emitted for it,
\* the URL it has opened, the account-email lookup of its callback, and how
\* many of the delayed stops that were scheduled before it started have
\* not fired yet.
IdleFlow == [pc |-> "idle", provider |-> "none", port |-> 0, waitOn |-> 0,
             url |-> NoUrl, clientId |-> "", emitted |-> <<>>,
             lookup |-> "none", timersAtStart |-> 0]
\* this.clientConfigs[provider].clientId: not configured, or configured.
ClientIds == {"", "client-id"}

\* The sets Init draws the ports held by other processes from.
ExternalBusyChoices == {{}, PortRange}
\* The same with a range of which two ports, not the lowest, are free.
PortChoices ==
    ExternalBusyChoices \cup
        {PortRange \ {OAUTH_CALLBACK_PORT_START + 1,
                      OAUTH_CALLBACK_PORT_START + 2}}

\* The fields of a CalendarAuthManager after construction.
AuthIdle ==
    /\ pendingRequests = [s \in States |-> NoRequest]
    /\ callbackServer = 0
    /\ callbackPort = 0
    /\ srv = [f \in Flows |-> NoServer]
    /\ flow = [f \in Flows |-> IdleFlow]
    /\ timers = 0
    /\ postLog = {}
    /\ postCount = [s \in States |-> 0]
    /\ exchange = [s \in States |-> "none"]
    /\ eventListeners = 1

\* A server holds its port from listen() until close() is called on it.
Bound(S, f) == S[f].status = "listening"
PortBusy(p) == p \in externalBusy \/ \E f \in Flows : Bound(srv, f) /\ srv[f].port = p

\* stopCallbackServer: closes this.callbackServer when there is one. close()
\* stops listening at once; its callback (ServerCloseEvent) runs later.
stopCallbackServer(S) ==
    IF callbackServer # 0 /\ Bound(S, callbackServer)
    THEN [S EXCEPT ![callbackServer].status = "closing"]
    ELSE S

\* cleanupExpiredRequests: drops every entry older than the timeout.
cleanupExpiredRequests(P) ==
    [s \in States |->
        IF P[s] # NoRequest /\ now - P[s].createdAt > PENDING_REQUEST_TIMEOUT_MS
        THEN NoRequest ELSE P[s]]

\* emit(event): every subscriber is called; events holds what the
\* subscribers have been notified of for one flow.
emit(events, event) ==
    IF eventListeners > 0 THEN Append(events, event) ELSE events

\* A check of the client id that lets every value pass.
clientIdNeverMissing(clientId) == FALSE

\* if (!clientId): the client id is undefined or empty.
clientIdMissing(clientId) == clientId = ""

\* startOAuthFlow up to its return without a client id (auth-error and a
\* notice) or, with one, up to its first suspension: it has emitted
\* status-change "connecting" and awaits stopCallbackServer() inside
\* startCallbackServer. With no server it goes on to tryPort(PORT_START).
startOAuthFlow(f, p, clientId) ==
    /\ flow[f].pc = "idle"
    /\ \A g \in Flows : g < f => flow[g].pc # "idle"
    /\ IF clientIdMissing(clientId)
       THEN /\ srv' = srv
            /\ flow' = [flow EXCEPT ![f] =
                  [IdleFlow EXCEPT !.pc = "rejected", !.provider = p,
                                   !.clientId = clientId,
                                   !.emitted = emit(<<>>, "auth-error")]]
       ELSE /\ srv' = stopCallbackServer(srv)
            /\ flow' = [flow EXCEPT ![f] =
                  IF callbackServer # 0
                  THEN [IdleFlow EXCEPT
                           !.pc = "stopping", !.provider = p,
                           !.timersAtStart = timers,
                           !.waitOn = callbackServer, !.clientId = clientId,
                           !.emitted =
                               emit(<<>>, "status-change:connecting")]
                  ELSE [IdleFlow EXCEPT
                           !.pc = "binding", !.provider = p,
                           !.timersAtStart = timers,
                           !.port = OAUTH_CALLBACK_PORT_START,
                           !.clientId = clientId,
                           !.emitted =
                               emit(<<>>, "status-change:connecting")]]
    /\ UNCHANGED <<now, pendingRequests, callbackServer, callbackPort,
                   externalBusy, eventListeners, timers, postLog, postCount, exchange>>
    /\ UNCHANGED <<writeVars, fetchVars, tokenVars, dateVars, convVars,
                 mgrVars, callVars>>

\* The callback of server.close(): clears this.callbackServer, whichever server
\* it names by then, and resumes every flow awaiting the stop.
ServerCloseEvent(s) ==
    /\ srv[s].status = "closing"
    /\ srv' = [srv EXCEPT ![s].status = "closed"]
    /\ callbackServer' = 0
    /\ callbackPort' = 0
    /\ flow' = [f \in Flows |->
          IF flow[f].pc = "stopping" /\ flow[f].waitOn = s
          THEN [flow[f] EXCEPT !.pc = "binding",
                               !.port = OAUTH_CALLBACK_PORT_START, !.waitOn = 0]
          ELSE flow[f]]
    /\ UNCHANGED <<now, pendingRequests, externalBusy, eventListeners, timers,
                   postLog, postCount, exchange>>
    /\ UNCHANGED <<writeVars, fetchVars, tokenVars, dateVars, convVars,
                 mgrVars, callVars>>

\* The catch block of startOAuthFlow: auth-error, then stopCallbackServer()
\* (not awaited).
FlowFailed(f) ==
    /\ flow' = [flow EXCEPT ![f].pc = "failed",
                            ![f].emitted = emit(@, "auth-error")]
    /\ srv' = stopCallbackServer(srv)

\* tryPort(port): past the range it rejects; a busy port (EADDRINUSE) moves on
\* to the next one; otherwise the new server binds the port and the callback of
\* server.listen() records it as this.callbackServer and resolves the redirect
\* URI, after which startOAuthFlow awaits generatePKCE().
tryPort(f) ==
    /\ flow[f].pc = "binding"
    /\ IF flow[f].port > OAUTH_CALLBACK_PORT_END
       THEN /\ FlowFailed(f)
            /\ UNCHANGED <<callbackServer, callbackPort>>
       ELSE IF PortBusy(flow[f].port)
       THEN /\ flow' = [flow EXCEPT ![f].port = @ + 1]
            /\ UNCHANGED <<srv, callbackServer, callbackPort>>
       ELSE /\ flow' = [flow EXCEPT ![f].pc = "pkce"]
            /\ srv' = [srv EXCEPT ![f] = [status |-> "listening", port |-> flow[f].port]]
            /\ callbackServer' = f
            /\ callbackPort' = flow[f].port
    /\ UNCHANGED <<now, pendingRequests, externalBusy, eventListeners, timers, postLog,
                   postCount, exchange>>
    /\ UNCHANGED <<writeVars, fetchVars, tokenVars, dateVars, convVars,
                 mgrVars, callVars>>

\* server.on("error") with a code other than EADDRINUSE: reject(err).
tryPortError(f) ==
    /\ flow[f].pc = "binding"
    /\ flow[f].port <= OAUTH_CALLBACK_PORT_END
    /\ FlowFailed(f)
    /\ UNCHANGED <<now, pendingRequests, callbackServer, callbackPort,
                   externalBusy, eventListeners, timers, postLog, postCount, exchange>>
    /\ UNCHANGED <<writeVars, fetchVars, tokenVars, dateVars, convVars,
                 mgrVars, callVars>>

\* A flow that took the redirect URI from this.callbackPort.
redirectUriCurrent(f) == callbackPort

\* const redirectUri = await this.startCallbackServer(): the URI the listen
\* callback of this flow's server resolved, with the port of that tryPort.
redirectUriOf(f) == flow[f].port

\* The base64 alphabet of btoa, indexed by sextet + 1.
Base64Alphabet ==
    <<"A", "B", "C", "D", "E", "F", "G", "H", "I", "J", "K", "L", "M",
      "N", "O", "P", "Q", "R", "S", "T", "U", "V", "W", "X", "Y", "Z",
      "a", "b", "c", "d", "e", "f", "g", "h", "i", "j", "k", "l", "m",
      "n", "o", "p", "q", "r", "s", "t", "u", "v", "w", "x", "y", "z",
      "0", "1", "2", "3", "4", "5", "6", "7", "8", "9", "+", "/">>

\* btoa of a byte string: groups of three bytes give four characters, a
\* last group of one or two bytes is padded with "=".
RECURSIVE btoa(_)
btoa(bytes) ==
    IF Len(bytes) = 0 THEN <<>>
    ELSE IF Len(bytes) = 1
    THEN <<Base64Alphabet[bytes[1] \div 4 + 1],
           Base64Alphabet[(bytes[1] % 4) * 16 + 1], "=", "=">>
    ELSE IF Len(bytes) = 2
    THEN <<Base64Alphabet[bytes[1] \div 4 + 1],
           Base64Alphabet[(bytes[1] % 4) * 16 + bytes[2] \div 16 + 1],
           Base64Alphabet[(bytes[2] % 16) * 4 + 1], "=">>
    ELSE <<Base64Alphabet[bytes[1] \div 4 + 1],
           Base64Alphabet[(bytes[1] % 4) * 16 + bytes[2] \div 16 + 1],
           Base64Alphabet[(bytes[2] % 16) * 4 + bytes[3] \div 64 + 1],
           Base64Alphabet[(bytes[3] % 64) + 1]>>
         \o btoa(SubSeq(bytes, 4, Len(bytes)))

\* text.replace(/from/g, to) for a one-character pattern.
replaceAll(text, from, to) ==
    [i \in 1..Len(text) |-> IF text[i] = from THEN to ELSE text[i]]

\* text.replace(/=+$/, ""): the trailing run of "=" is dropped.
RECURSIVE stripPadding(_)
stripPadding(text) ==
    IF Len(text) > 0 /\ text[Len(text)] = "="
    THEN stripPadding(SubSeq(text, 1, Len(text) - 1))
    ELSE text

\* An encoder that stops at btoa.
base64Encode(bytes) == btoa(bytes)

\* base64UrlEncode(bytes).
base64UrlEncode(bytes) ==
    stripPadding(replaceAll(replaceAll(btoa(bytes), "+", "-"), "/", "_"))

\* crypto.subtle.digest("SHA-256", data) is the platform's: 32 bytes that
\* depend on the input. The bytes taken here begin with the sextets 62, 62,
\* 63, 63 and, as every 32-byte digest, end in a group of two bytes.
DigestLength == 32
sha256(input) ==
    [i \in 1..DigestLength |->
        CASE i = 1 -> 251
          [] i = 2 -> 239
          [] i = 3 -> 255
          [] OTHER -> ((input * 83) + (i * 59)) % 256]

sha256Base64Url(input) == base64UrlEncode(sha256(input))

\* The challenge of every verifier, computed once.
codeChallengeOf == [v \in Flows |-> sha256Base64Url(v)]

\* generatePKCE(): the verifier of flow f is the random string named f.
generatePKCE(f) ==
    [codeVerifier |-> f, codeChallenge |-> codeChallengeOf[f]]

\* buildAuthorizationUrl(provider, params): the query of the URL.
buildAuthorizationUrl(params) ==
    [client_id |-> params.clientId,
     code_challenge |-> params.codeChallenge,
     code_challenge_method |-> "S256",
     state |-> params.state,
     redirect_uri |-> params.redirectUri]

\* startOAuthFlow after generatePKCE(): stores the pending request under a
\* fresh state, purges the expired ones and opens the authorization URL.
storePending(f) ==
    /\ flow[f].pc = "pkce"
    /\ LET pkce == generatePKCE(f)
           state == f
       IN  /\ pendingRequests' = cleanupExpiredRequests(
                 [pendingRequests EXCEPT ![state] =
                     [provider |-> flow[f].provider,
                      codeVerifier |-> pkce.codeVerifier,
                      createdAt |-> now, redirectUri |-> redirectUriOf(f)]])
           /\ flow' = [flow EXCEPT
                 ![f].pc = "opened",
                 ![f].url = buildAuthorizationUrl(
                     [clientId |-> flow[f].clientId,
                      codeChallenge |-> pkce.codeChallenge,
                      state |-> state,
                      redirectUri |-> redirectUriOf(f)])]
    /\ UNCHANGED <<now, callbackServer, callbackPort, srv, externalBusy, eventListeners,
                   timers, postLog, postCount, exchange>>
    /\ UNCHANGED <<writeVars, fetchVars, tokenVars, dateVars, convVars,
                 mgrVars, callVars>>

\* The query parameters a callback can carry. state 0: no state parameter.
CallbackStates == {0, UnknownState} \cup {s \in States : flow[s].pc = "opened"}
NoParams == [error |-> FALSE, code |-> FALSE, state |-> 0]
Params ==
    {[error |-> TRUE, code |-> FALSE, state |-> 0], NoParams}
    \cup [error : {FALSE}, code : {TRUE}, state : 0..UnknownState]
    \cup {[error |-> TRUE, code |-> TRUE, state |-> 1]}
\* The requests a listener can receive: the callback path with any parameters,
\* or some other path.
Requests ==
    [path : {"/oauth/callback"}, q : Params] \cup {[path |-> "/", q |-> NoParams]}

\* handleOAuthCallback up to its first suspension (the token POST of
\* exchangeCodeForTokens): the callback passes the three checks.
callbackAccepted(q) ==
    /\ ~q.error
    /\ q.code
    /\ q.state \in States
    /\ pendingRequests[q.state] # NoRequest

\* A handler that leaves the used state in the map.
pendingKept(q) == pendingRequests

\* A handler whose rejecting paths drop every pending request.
pendingClearedOnReject(q) ==
    IF callbackAccepted(q)
    THEN [pendingRequests EXCEPT ![q.state] = NoRequest]
    ELSE [s \in States |-> NoRequest]

\* "Remove used state": this.pendingRequests.delete(state).
pendingAfterCallback(q) ==
    IF callbackAccepted(q)
    THEN [pendingRequests EXCEPT ![q.state] = NoRequest]
    ELSE pendingRequests

handleOAuthCallback(q) ==
    /\ pendingRequests' = pendingAfterCallback(q)
    /\ IF callbackAccepted(q)
       THEN /\ postLog' = postLog \cup
                  {[state |-> q.state,
                    codeVerifier |-> pendingRequests[q.state].codeVerifier,
                    redirectUri |-> pendingRequests[q.state].redirectUri]}
            /\ postCount' = [postCount EXCEPT ![q.state] = @ + 1]
            /\ exchange' = [exchange EXCEPT ![q.state] = "inflight"]
       ELSE UNCHANGED <<postLog, postCount, exchange>>

\* handleHttpCallback: a request reaching a listener of ours. Off the callback
\* path it answers 404; on it, it runs handleOAuthCallback and schedules the
\* delayed stopCallbackServer.
handleHttpCallback(r) ==
    /\ \E s \in Flows : Bound(srv, s)
    /\ r.q.state \in CallbackStates
    /\ r.path = "/oauth/callback" => timers < MaxTimers
    /\ callbackAccepted(r.q) => postCount[r.q.state] < MaxPosts
    /\ IF r.path = "/oauth/callback"
       THEN /\ handleOAuthCallback(r.q)
            /\ timers' = timers + 1
       ELSE UNCHANGED <<pendingRequests, postLog, postCount, exchange, timers>>
    /\ UNCHANGED <<now, callbackServer, callbackPort, srv, flow,
                   externalBusy, eventListeners>>
    /\ UNCHANGED <<writeVars, fetchVars, tokenVars, dateVars, convVars,
                 mgrVars, callVars>>

\* The legacy obsidian:// protocol handler registered by registerProtocolHandler.
legacyCallback(q) ==
    /\ q.state \in CallbackStates
    /\ callbackAccepted(q) => postCount[q.state] < MaxPosts
    /\ handleOAuthCallback(q)
    /\ UNCHANGED <<now, callbackServer, callbackPort, srv, flow,
                   externalBusy, eventListeners, timers>>
    /\ UNCHANGED <<writeVars, fetchVars, tokenVars, dateVars, convVars,
                 mgrVars, callVars>>

\* The token endpoint answers. 200: handleOAuthCallback goes on to
\* fetchUserEmail and awaits its GET, which SpecCallback answers and
\* SpecAuth leaves unanswered. Anything else: exchangeCodeForTokens
\* throws and the outer catch emits auth-error.
exchangeResponse(s, ok) ==
    /\ exchange[s] = "inflight"
    /\ exchange' = [exchange EXCEPT ![s] = IF ok THEN "ok" ELSE "failed"]
    /\ flow' = IF ok
               THEN [flow EXCEPT ![s].lookup = "inflight"]
               ELSE [flow EXCEPT ![s].emitted = emit(@, "auth-error")]
    /\ UNCHANGED <<now, pendingRequests, callbackServer, callbackPort,
                   srv, externalBusy, eventListeners, timers, postLog, postCount>>
    /\ UNCHANGED <<writeVars, fetchVars, tokenVars, dateVars, convVars,
                 mgrVars, callVars>>

\* The answers to the GET of fetchUserEmail: 200 with the address, or a
\* failure (another status, or requestUrl throws).
LookupAnswers == {"answered", "failed"}

\* A handler whose email lookup is not caught on its own: its failure
\* reaches the outer catch.
emitAfterLookupUncaught(emitted, answer) ==
    emit(emitted, IF answer = "answered" THEN "auth-success:email"
                  ELSE "auth-error")

\* handleOAuthCallback after the lookup: the inner catch leaves email
\* undefined, and auth-success is emitted with the tokens and the email.
emitAfterLookup(emitted, answer) ==
    emit(emitted, IF answer = "answered" THEN "auth-success:email"
                  ELSE "auth-success")

\* The userinfo endpoint answers the GET of fetchUserEmail.
fetchUserEmailResponse(s, answer) ==
    /\ flow[s].lookup = "inflight"
    /\ flow' = [flow EXCEPT ![s].lookup = answer,
                            ![s].emitted = emitAfterLookup(@, answer)]
    /\ UNCHANGED <<now, pendingRequests, callbackServer, callbackPort,
                   srv, externalBusy, eventListeners, timers, postLog, postCount, exchange>>
    /\ UNCHANGED <<writeVars, fetchVars, tokenVars, dateVars, convVars,
                 mgrVars, callVars>>

\* setTimeout(() => this.stopCallbackServer(), 1000) fires: the oldest of
\* the scheduled stops, all of which have the same delay.
timerFires ==
    /\ timers > 0
    /\ timers' = timers - 1
    /\ srv' = stopCallbackServer(srv)
    /\ flow' = [f \in Flows |->
                  [flow[f] EXCEPT !.timersAtStart =
                                      IF @ > 0 THEN @ - 1 ELSE 0]]
    /\ UNCHANGED <<now, pendingRequests, callbackServer, callbackPort,
                   externalBusy, eventListeners, postLog, postCount, exchange>>
    /\ UNCHANGED <<writeVars, fetchVars, tokenVars, dateVars, convVars,
                 mgrVars, callVars>>

\* The clock advances by Delay. The one-second timers have fired by then, a
\* startOAuthFlow that was binding its port (milliseconds) has gone on, a
\* closing server has closed and a token POST has been answered. The clock
\* is read for the age of the pending requests only: the step is taken when
\* there is a pending request that it ages.
Tick ==
    /\ now < MaxTicks * Delay
    /\ timers = 0
    /\ \A f \in Flows : flow[f].pc \notin {"stopping", "binding", "pkce"}
    /\ \A f \in Flows : srv[f].status # "closing"
    /\ \A s \in States : exchange[s] # "inflight"
    /\ \E s \in States :
           /\ pendingRequests[s] # NoRequest
           /\ now - pendingRequests[s].createdAt <= PENDING_REQUEST_TIMEOUT_MS
    /\ now' = now + Delay
    /\ UNCHANGED <<pendingRequests, callbackServer, callbackPort, srv, flow,
                   externalBusy, eventListeners, timers, postLog, postCount, exchange>>
    /\ UNCHANGED <<writeVars, fetchVars, tokenVars, dateVars, convVars,
                 mgrVars, callVars>>

NextAuth ==
    \/ \E f \in StartedWithCallbacks, c \in ClientIds :
           startOAuthFlow(f, ProviderOf(f), c)
    \/ \E s \in Flows : ServerCloseEvent(s)
    \/ \E f \in Flows : tryPort(f)
    \/ \E f \in Flows : tryPortError(f)
    \/ \E f \in Flows : storePending(f)
    \/ \E r \in Requests : handleHttpCallback(r)
    \/ \E q \in Params : legacyCallback(q)
    \/ \E s \in States, ok \in BOOLEAN : exchangeResponse(s, ok)
    \/ timerFires
    \/ Tick

\* The flows up to the end of their callbacks: the listener receives the
\* requests and the userinfo endpoint answers the lookups.
NextCallback ==
    \/ \E f \in StartedWithCallbacks, c \in ClientIds :
           startOAuthFlow(f, ProviderOf(f), c)
    \/ \E s \in Flows : ServerCloseEvent(s)
    \/ \E f \in Flows : tryPort(f)
    \/ \E f \in Flows : storePending(f)
    \/ \E r \in Requests : handleHttpCallback(r)
    \/ \E s \in States, ok \in BOOLEAN : exchangeResponse(s, ok)
    \/ \E s \in States, a \in LookupAnswers : fetchUserEmailResponse(s, a)
    \/ timerFires

\* onunload(): stopCallbackServer() (not awaited), then the pending map and
\* the subscription list are emptied.
onunload ==
    /\ eventListeners > 0
    /\ srv' = stopCallbackServer(srv)
    /\ pendingRequests' = [s \in States |-> NoRequest]
    /\ eventListeners' = 0
    /\ UNCHANGED <<now, callbackServer, callbackPort, flow, externalBusy,
                   timers, postLog, postCount, exchange>>
    /\ UNCHANGED <<writeVars, fetchVars, tokenVars, dateVars, convVars,
                 mgrVars, callVars>>

\* The flows and their callbacks around the teardown of the engine.
\* No flow is started once the engine is unloaded; the flows that were in
\* flight at that moment run on.
NextTeardown ==
    \/ /\ eventListeners > 0
       /\ \E f \in StartedWithCallbacks :
              startOAuthFlow(f, ProviderOf(f), "client-id")
    \/ \E s \in Flows : ServerCloseEvent(s)
    \/ \E f \in Flows : tryPort(f)
    \/ \E f \in Flows : storePending(f)
    \/ \E r \in Requests : handleHttpCallback(r)
    \/ \E s \in States, ok \in BOOLEAN : exchangeResponse(s, ok)
    \/ \E s \in States, a \in LookupAnswers : fetchUserEmailResponse(s, a)
    \/ timerFires
    \/ onunload

\* The start of the flows alone: no callback arrives.
NextPorts ==
    \/ \E f \in Flows, c \in ClientIds : startOAuthFlow(f, ProviderOf(f), c)
    \/ \E s \in Flows : ServerCloseEvent(s)
    \/ \E f \in Flows : tryPort(f)
    \/ \E f \in Flows : tryPortError(f)
    \/ \E f \in Flows : storePending(f)

\* ------------------------------------------------------------------------
\* updateEvent / deleteEvent of the three providers
\* ------------------------------------------------------------------------
MaxVersion == 3

WriteProviders == {"google", "outlook", "caldav"}
\* A version tag (ETag / changeKey) is the version it was read at; 0: no tag.
Tags == 0..MaxVersion

\* written: the version the server gave the event when it accepted a request
\* of the call (0: it accepted none).
NoCall == [op |-> "none", provider |-> "none", tag |-> 0, pc |-> "idle",
           sent |-> <<>>, statuses |-> <<>>, written |-> 0]
NoResult == [success |-> FALSE, conflict |-> FALSE, etag |-> 0]
Success(tag) == [success |-> TRUE, conflict |-> FALSE, etag |-> tag]
Failure == [success |-> FALSE, conflict |-> FALSE, etag |-> 0]
Conflict == [success |-> FALSE, conflict |-> TRUE, etag |-> 0]

\* connect(): updateStatus({status: "idle"}) on success; "error" when there is
\* no auth or ensureValidToken threw (handleError).
statusAfterConnect(connected) == IF connected THEN "idle" ELSE "error"

WriteInitial ==
    /\ remote = [exists |-> TRUE, version |-> 1, content |-> "original"]
    /\ wcall = NoCall
    /\ wresult = NoResult

\* The status the server answers to an update (PATCH, or PUT on CalDAV) that
\* carries If-Match: ifMatch (0: no conditional header).
ServeUpdate(p, ifMatch) ==
    IF ~remote.exists
    THEN (IF p = "caldav" THEN (IF ifMatch # 0 THEN {412} ELSE {201}) ELSE {404})
    ELSE IF ifMatch # 0 /\ ifMatch # remote.version
    THEN {412}
    ELSE (IF p = "caldav" THEN {204} ELSE {200}) \cup {403}

\* The status the server answers to a DELETE carrying If-Match: ifMatch.
ServeDelete(p, ifMatch) ==
    IF ~remote.exists
    THEN (IF p = "google" THEN {404, 410} ELSE {404})
    ELSE IF ifMatch # 0 /\ ifMatch # remote.version
    THEN {412}
    ELSE {204, 403}

\* The resource after the server handled the request with the given status.
remoteAfterUpdate(st) ==
    IF st \in {200, 201, 204}
    THEN [exists |-> TRUE, version |-> remote.version + 1, content |-> "ours"]
    ELSE remote
writtenBy(st) == IF st \in {200, 201, 204} THEN remote.version + 1 ELSE 0
remoteAfterDelete(st) ==
    IF st = 204 THEN [remote EXCEPT !.exists = FALSE] ELSE remote

\* OAUTH_PROVIDERS.google.defaultScopes, the scope parameter of the
\* authorization URL.
googleDefaultScopes ==
    {"https://www.googleapis.com/auth/calendar",
     "https://www.googleapis.com/auth/userinfo.email"}

\* The request a provider sends: its method and its If-Match header.
updateRequest(p, ifMatch) ==
    [method |-> IF p = "caldav" THEN "PUT" ELSE "PATCH", ifMatch |-> ifMatch]

\* GoogleCalendarProvider.updateEvent, from the status of its last request:
\* >= 400 is a failure, anything else a success carrying the event of the
\* response (convertGoogleEvent copies its etag).
googleUpdateResult(st) ==
    IF st >= 400 THEN Failure ELSE Success(remoteAfterUpdate(st).version)

\* OutlookCalendarProvider.updateEvent: 412 is a conflict, >= 400 a failure,
\* anything else a success carrying the changeKey of the response.
outlookUpdateResult(st) ==
    IF st = 412 THEN Conflict
    ELSE IF st >= 400 THEN Failure
    ELSE Success(remoteAfterUpdate(st).version)

\* AppleCaldavProvider.updateEvent: 204 / 200 are a success carrying the ETag
\* header of the response (the server is taken to send one), 412 a conflict,
\* every other status a failure.
caldavUpdateResult(st) ==
    IF st \in {200, 204} THEN Success(remoteAfterUpdate(st).version)
    ELSE IF st = 412 THEN Conflict
    ELSE Failure

updateResult(p, st) ==
    CASE p = "google" -> googleUpdateResult(st)
      [] p = "outlook" -> outlookUpdateResult(st)
      [] p = "caldav" -> caldavUpdateResult(st)

\* GoogleCalendarProvider.deleteEvent: 412 conflict, 204 / 200 success,
\* 410 Gone success, every other status a failure.
googleDeleteResult(st) ==
    IF st = 412 THEN Conflict
    ELSE IF st \in {200, 204} THEN Success(0)
    ELSE IF st = 410 THEN Success(0)
    ELSE Failure

\* OutlookCalendarProvider.deleteEvent: 412 conflict, 204 / 200 success,
\* 404 success, every other status a failure.
outlookDeleteResult(st) ==
    IF st = 412 THEN Conflict
    ELSE IF st \in {200, 204} THEN Success(0)
    ELSE IF st = 404 THEN Success(0)
    ELSE Failure

\* AppleCaldavProvider.deleteEvent: 204 / 200 success, 404 success,
\* 412 conflict, every other status a failure.
caldavDeleteResult(st) ==
    IF st \in {200, 204} THEN Success(0)
    ELSE IF st = 404 THEN Success(0)
    ELSE IF st = 412 THEN Conflict
    ELSE Failure

deleteResult(p, st) ==
    CASE p = "google" -> googleDeleteResult(st)
      [] p = "outlook" -> outlookDeleteResult(st)
      [] p = "caldav" -> caldavDeleteResult(st)

\* updateEvent(options) with the version tag of options.originalEvent / event.
\* connect() failing ends the call at once. Otherwise the conditional request
\* is sent and answered; Google, on 412, goes on to a second request.
updateEvent(p, tag, connected, st) ==
    /\ wcall.pc # "retry"
    /\ tag <= remote.version
    /\ IF ~connected
       THEN /\ st = 0
            /\ wcall' = [op |-> "update", provider |-> p, tag |-> tag,
                         pc |-> "done", sent |-> <<>>, statuses |-> <<>>,
                         written |-> 0]
            /\ wresult' = Failure
            /\ remote' = remote
       ELSE /\ st \in ServeUpdate(p, tag)
            /\ remoteAfterUpdate(st).version <= MaxVersion
            /\ remote' = remoteAfterUpdate(st)
            /\ wcall' = [op |-> "update", provider |-> p, tag |-> tag,
                         pc |-> IF p = "google" /\ st = 412 THEN "retry" ELSE "done",
                         sent |-> <<updateRequest(p, tag)>>,
                         statuses |-> <<st>>, written |-> writtenBy(st)]
            /\ wresult' = IF p = "google" /\ st = 412 THEN NoResult
                          ELSE updateResult(p, st)
    /\ currentStatus' = statusAfterConnect(connected)
    /\ UNCHANGED <<fetchRest, authVars, tokenVars, dateVars, convVars,
                 mgrVars, callVars>>

\* Google updateEvent after a 412: "retry without ETag to force update".
updateRetry(st) ==
    /\ wcall.pc = "retry"
    /\ st \in ServeUpdate("google", 0)
    /\ remoteAfterUpdate(st).version <= MaxVersion
    /\ remote' = remoteAfterUpdate(st)
    /\ wcall' = [wcall EXCEPT !.pc = "done",
                              !.sent = Append(@, updateRequest("google", 0)),
                              !.statuses = Append(@, st),
                              !.written = writtenBy(st)]
    /\ wresult' = updateResult("google", st)
    /\ UNCHANGED <<authVars, fetchVars, tokenVars, dateVars, convVars,
                 mgrVars, callVars>>

\* deleteEvent(eventId, calendarId, etag).
deleteEvent(p, tag, connected, st) ==
    /\ wcall.pc # "retry"
    /\ tag <= remote.version
    /\ IF ~connected
       THEN /\ st = 0
            /\ wcall' = [op |-> "delete", provider |-> p, tag |-> tag,
                         pc |-> "done", sent |-> <<>>, statuses |-> <<>>,
                         written |-> 0]
            /\ wresult' = Failure
            /\ remote' = remote
       ELSE /\ st \in ServeDelete(p, tag)
            /\ remote' = remoteAfterDelete(st)
            /\ wcall' = [op |-> "delete", provider |-> p, tag |-> tag,
                         pc |-> "done",
                         sent |-> <<[method |-> "DELETE", ifMatch |-> tag]>>,
                         statuses |-> <<st>>, written |-> 0]
            /\ wresult' = deleteResult(p, st)
    /\ currentStatus' = statusAfterConnect(connected)
    /\ UNCHANGED <<fetchRest, authVars, tokenVars, dateVars, convVars,
                 mgrVars, callVars>>

\* A create PUT that carries no conditional header.
createRequestUnconditional ==
    [method |-> "PUT", ifMatch |-> 0, ifNoneMatch |-> "none"]

\* The PUT of AppleCaldavProvider.createEvent: "If-None-Match": "*".
createRequest == [method |-> "PUT", ifMatch |-> 0, ifNoneMatch |-> "*"]

\* The status the server answers to a PUT on the resource of the UID: with
\* If-None-Match: * it refuses to replace an existing resource.
ServeCreate(request) ==
    (IF ~remote.exists THEN {201}
     ELSE IF request.ifNoneMatch = "*" THEN {412}
     ELSE {204}) \cup {403}

\* AppleCaldavProvider.createEvent: 201 / 204 / 200 are a success carrying
\* the ETag header of the response, 412 a conflict, every other status a
\* failure.
caldavCreateResult(st) ==
    IF st \in {200, 201, 204} THEN Success(remoteAfterUpdate(st).version)
    ELSE IF st = 412 THEN Conflict
    ELSE Failure

\* createEvent(event, calendarId) of the CalDAV provider, for an event whose
\* UID names the resource.
createEvent(connected, st) ==
    /\ wcall.pc # "retry"
    /\ IF ~connected
       THEN /\ st = 0
            /\ wcall' = [op |-> "create", provider |-> "caldav", tag |-> 0,
                         pc |-> "done", sent |-> <<>>, statuses |-> <<>>,
                         written |-> 0]
            /\ wresult' = Failure
            /\ remote' = remote
       ELSE /\ st \in ServeCreate(createRequest)
            /\ remoteAfterUpdate(st).version <= MaxVersion
            /\ remote' = remoteAfterUpdate(st)
            /\ wcall' = [op |-> "create", provider |-> "caldav", tag |-> 0,
                         pc |-> "done", sent |-> <<createRequest>>,
                         statuses |-> <<st>>, written |-> writtenBy(st)]
            /\ wresult' = caldavCreateResult(st)
    /\ currentStatus' = statusAfterConnect(connected)
    /\ UNCHANGED <<fetchRest, authVars, tokenVars, dateVars, convVars,
                 mgrVars, callVars>>

\* Another client of the same calendar changes or deletes the event.
concurrentWrite ==
    /\ remote.exists
    /\ remote.version < MaxVersion
    /\ remote' = [remote EXCEPT !.version = @ + 1, !.content = "theirs"]
    /\ UNCHANGED <<wcall, wresult>>
    /\ UNCHANGED <<authVars, fetchVars, tokenVars, dateVars, convVars,
                 mgrVars, callVars>>

concurrentDelete ==
    /\ remote.exists
    /\ remote' = [remote EXCEPT !.exists = FALSE]
    /\ UNCHANGED <<wcall, wresult>>
    /\ UNCHANGED <<authVars, fetchVars, tokenVars, dateVars, convVars,
                 mgrVars, callVars>>

Statuses == {0, 200, 201, 204, 403, 404, 410, 412}

NextWrite ==
    \/ \E p \in WriteProviders, tag \in Tags, c \in BOOLEAN, st \in Statuses :
          updateEvent(p, tag, c, st)
    \/ \E st \in Statuses : updateRetry(st)
    \/ \E p \in WriteProviders, tag \in Tags, c \in BOOLEAN, st \in Statuses :
          deleteEvent(p, tag, c, st)
    \/ \E c \in BOOLEAN, st \in Statuses : createEvent(c, st)
    \/ concurrentWrite
    \/ concurrentDelete

\* ------------------------------------------------------------------------
\* getEvents of the three providers
\* ------------------------------------------------------------------------
MaxCalendars == 3
MaxPages == 2

Calendars == 1..MaxCalendars
\* options.maxResults of the calls: Google sends it as maxResults and Outlook
\* as $top of every page request, and the server answers with that many
\* events a page; the CalDAV REPORT does not carry it.
maxResults == 1
\* An event is named by its calendar and the page that delivered it.
EventOf(c, k) == <<c, k>>

NoFetch == [provider |-> "none", pc |-> "idle", n |-> 0,
            st |-> [c \in Calendars |-> "none"],
            local |-> [c \in Calendars |-> <<>>],
            settled |-> [c \in Calendars |-> <<>>],
            allEvents |-> <<>>, issued |-> 0]
NoFetchResult == [returned |-> FALSE, thrown |-> FALSE, events |-> <<>>]

FetchInitial ==
    /\ fcall = NoFetch
    /\ fresult = NoFetchResult
    /\ currentStatus = "idle"
    /\ isSyncing = FALSE
    /\ aborted = FALSE

RECURSIVE Concat(_, _)
\* F[1] \o F[2] \o ... \o F[n]
Concat(F, n) == IF n = 0 THEN <<>> ELSE Concat(F, n - 1) \o F[n]

Returned(events) == [returned |-> TRUE, thrown |-> FALSE, events |-> events]

\* A handler that kept the events read before the error.
caughtPartial(c) == fcall.local[c]

\* What fetchEventsFromCalendar(c).catch(...) settles to when the fetch threw:
\* the handler returns [], the events read before the error are dropped.
caughtValue(c) == <<>>

\* getEvents(options) up to its first await of a calendar fetch. connect()
\* false returns [] at once; an empty calendar list returns [] from inside
\* the try, so the finally block runs setSyncing(false).
getEvents(p, n, connected) ==
    /\ fcall.pc # "fetching"
    /\ aborted' = FALSE
    /\ IF ~connected
       THEN /\ fcall' = [NoFetch EXCEPT !.provider = p, !.pc = "done", !.n = n]
            /\ fresult' = Returned(<<>>)
            /\ currentStatus' = "error"
            /\ isSyncing' = isSyncing
       ELSE IF n = 0
       THEN /\ fcall' = [NoFetch EXCEPT !.provider = p, !.pc = "done"]
            /\ fresult' = Returned(<<>>)
            /\ currentStatus' = "idle"
            /\ isSyncing' = FALSE
       ELSE /\ fcall' = [NoFetch EXCEPT !.provider = p, !.pc = "fetching", !.n = n,
                           !.st = [c \in Calendars |->
                                     IF c <= n THEN "pending" ELSE "none"],
                           !.issued = IF p = "caldav" THEN 0 ELSE n]
            /\ fresult' = NoFetchResult
            /\ currentStatus' = "syncing"
            /\ isSyncing' = TRUE
    /\ UNCHANGED <<authVars, writeVars, tokenVars, dateVars, convVars,
                 mgrVars, callVars>>

\* Google / Outlook getEvents once every calendar's promise has settled:
\* the results are pushed in calendar order, the status goes to idle and the
\* finally block runs setSyncing(false).
allSettled(F) ==
    /\ fcall' = [F EXCEPT !.pc = "done", !.allEvents = Concat(F.settled, F.n)]
    /\ fresult' = Returned(Concat(F.settled, F.n))
    /\ currentStatus' = "idle"
    /\ isSyncing' = FALSE

\* fetchEventsFromCalendar(c) of Google or Outlook, which run concurrently
\* for all calendars (their first page requests are sent by getEvents): the
\* response to the request in flight, and what follows up to the next await.
\* outcome: the request fails, it is answered 401 (makeAuthenticatedRequest /
\* makeGraphRequest await connect(), which for a token that has not expired
\* sets the status to idle and returns true, and send the request again,
\* once), or it delivers a page with or without a nextPageToken; after
\* a page with one, the loop checks the cancellation signal and requests the
\* next page. issued counts the requests the step sends.
fetchPage(c, outcome) ==
    /\ fcall.pc = "fetching"
    /\ fcall.provider \in {"google", "outlook"}
    /\ fcall.st[c] \in {"pending", "resent"}
    /\ outcome = "more" => Len(fcall.local[c]) + 1 < MaxPages
    /\ outcome = "unauthorized" => fcall.st[c] = "pending"
    /\ LET page == EventOf(c, Len(fcall.local[c]) + 1)
           resend == outcome = "unauthorized"
           F == IF outcome = "fail"
                THEN [fcall EXCEPT !.st[c] = "failed",
                                   !.settled[c] = caughtValue(c),
                                   !.issued = 0]
                ELSE IF resend
                THEN [fcall EXCEPT !.st[c] = "resent", !.issued = 1]
                ELSE IF outcome = "more" /\ aborted
                THEN [fcall EXCEPT !.local[c] = Append(@, page),
                                   !.st[c] = "failed",
                                   !.settled[c] = caughtValue(c),
                                   !.issued = 0]
                ELSE IF outcome = "more"
                THEN [fcall EXCEPT !.local[c] = Append(@, page),
                                   !.st[c] = "pending",
                                   !.issued = 1]
                ELSE [fcall EXCEPT !.local[c] = Append(@, page),
                                   !.st[c] = "ok",
                                   !.settled[c] = Append(fcall.local[c], page),
                                   !.issued = 0]
       IN  IF \A d \in 1..F.n : F.st[d] \in {"ok", "failed"}
           THEN allSettled(F)
           ELSE /\ fcall' = F
                /\ currentStatus' = IF resend THEN statusAfterConnect(TRUE)
                                     ELSE currentStatus
                /\ UNCHANGED <<fresult, isSyncing>>
    /\ UNCHANGED aborted
    /\ UNCHANGED <<authVars, writeVars, tokenVars, dateVars, convVars,
                 mgrVars, callVars>>

\* One turn of the for loop of the CalDAV getEvents: the cancellation check
\* (its throw goes to the outer catch: handleError, then finally), then the
\* REPORT of the next calendar inside its own try / catch. After the last
\* calendar the status goes to idle and finally runs setSyncing(false).
fetchNext(outcome) ==
    /\ fcall.pc = "fetching"
    /\ fcall.provider = "caldav"
    /\ outcome \in {"fail", "last"}
    /\ LET c == CHOOSE d \in 1..fcall.n : fcall.st[d] = "pending" /\
                   \A e \in 1..(d - 1) : fcall.st[e] # "pending"
       IN  IF aborted
           THEN /\ fcall' = [fcall EXCEPT !.pc = "done", !.issued = 0]
                /\ fresult' = Returned(fcall.allEvents)
                /\ currentStatus' = "idle"
                /\ isSyncing' = FALSE
           ELSE LET F == IF outcome = "fail"
                         THEN [fcall EXCEPT !.st[c] = "failed", !.issued = 1]
                         ELSE [fcall EXCEPT
                                 !.st[c] = "ok", !.issued = 1,
                                 !.local[c] = <<EventOf(c, 1)>>,
                                 !.allEvents = @ \o <<EventOf(c, 1)>>]
                IN  IF c = fcall.n
                    THEN /\ fcall' = [F EXCEPT !.pc = "done"]
                         /\ fresult' = Returned(F.allEvents)
                         /\ currentStatus' = "idle"
                         /\ isSyncing' = FALSE
                    ELSE /\ fcall' = F
                         /\ UNCHANGED <<fresult, currentStatus, isSyncing>>
    /\ UNCHANGED aborted
    /\ UNCHANGED <<authVars, writeVars, tokenVars, dateVars, convVars,
                 mgrVars, callVars>>

\* The caller aborts options.signal while the call is running.
abort ==
    /\ fcall.pc = "fetching"
    /\ ~aborted
    /\ aborted' = TRUE
    /\ UNCHANGED <<fcall, fresult, currentStatus, isSyncing>>
    /\ UNCHANGED <<authVars, writeVars, tokenVars, dateVars, convVars,
                 mgrVars, callVars>>

FetchOutcomes == {"fail", "unauthorized", "more", "last"}

OverlapIdle == overlap = "idle"

\* A second getEvents call on the provider, started while the first one is
\* awaiting its requests: connect() is true and setSyncing(true) runs.
getEventsOverlapping ==
    /\ fcall.pc = "fetching"
    /\ overlap = "idle"
    /\ overlap' = "fetching"
    /\ isSyncing' = TRUE
    /\ currentStatus' = "syncing"
    /\ UNCHANGED <<fcall, fresult, aborted, discovery>>
    /\ UNCHANGED <<authVars, writeVars, tokenVars, dateVars, convVars,
                   mgrVars>>

\* The requests of the second call have settled: the status goes to idle
\* and the finally block runs setSyncing(false).
overlappingSettles ==
    /\ overlap = "fetching"
    /\ overlap' = "done"
    /\ isSyncing' = FALSE
    /\ currentStatus' = "idle"
    /\ UNCHANGED <<fcall, fresult, aborted, discovery>>
    /\ UNCHANGED <<authVars, writeVars, tokenVars, dateVars, convVars,
                   mgrVars>>

NextFetch ==
    \/ \E p \in WriteProviders, n \in 0..MaxCalendars, c \in BOOLEAN :
          getEvents(p, n, c)
    \/ \E c \in Calendars, o \in FetchOutcomes : fetchPage(c, o)
    \/ \E o \in FetchOutcomes : fetchNext(o)
    \/ abort

\* Two getEvents calls on one provider; no request is answered 401, so
\* that connect() runs at the start of the calls only.
NextOverlap ==
    \/ \E p \in WriteProviders, n \in 0..MaxCalendars, c \in BOOLEAN :
          getEvents(p, n, c)
    \/ \E c \in Calendars, o \in FetchOutcomes \ {"unauthorized"} :
          fetchPage(c, o)
    \/ \E o \in FetchOutcomes : fetchNext(o)
    \/ getEventsOverlapping
    \/ overlappingSettles

\* ------------------------------------------------------------------------
\* ensureValidToken and the 401 handling of the token-REST providers
\* ------------------------------------------------------------------------
MaxRefreshes == 2

\* expiresAt of the token the provider was configured with.
StoredExpiresAt == 60 * 60 * 1000
\* The instants the clock passes through: before, at and after the refresh
\* boundary expiresAt - TOKEN_REFRESH_BUFFER_MS, and after expiry.
TokenTimes ==
    { StoredExpiresAt - TOKEN_REFRESH_BUFFER_MS - 1000,
      StoredExpiresAt - TOKEN_REFRESH_BUFFER_MS,
      StoredExpiresAt - TOKEN_REFRESH_BUFFER_MS + 1000,
      StoredExpiresAt + 1000 }
\* expires_in (seconds) of a token endpoint response.
ExpiresIn == {60, 3600}

\* An OAuthTokenData object; id stands for the object and its accessToken.
\* Refresh tokens are numbered: 0 is none (undefined or ""), 1 the one the
\* provider was configured with, k + 1 the one a response issues together
\* with access token k + 1.
NoRefreshToken == 0
OriginalRefreshToken == 1
NoTokenData == [id |-> 0, expiresAt |-> 0, refreshToken |-> NoRefreshToken]
StoredToken(rt) == [id |-> 1, expiresAt |-> StoredExpiresAt, refreshToken |-> rt]

NoEnsure == [pc |-> "idle", caller |-> "none", at |-> 0, input |-> NoTokenData,
             output |-> NoTokenData, posts |-> 0, doneAt |-> 0, expiresIn |-> 0, refresh_token |-> NoRefreshToken]
NoApiCall == [kind |-> "none", pc |-> "idle", attempts |-> 0, refreshes |-> 0,
              sentWith |-> <<>>, statuses |-> <<>>, outcome |-> "none"]

TokenIdle ==
    /\ auth = StoredToken(OriginalRefreshToken)
    /\ req = NoApiCall
    /\ ev = NoEnsure

TokenInitial ==
    /\ auth \in {StoredToken(rt) : rt \in {NoRefreshToken,
                                             OriginalRefreshToken}}
    /\ req = NoApiCall
    /\ ev = NoEnsure

\* The expiry test with the boundary instant counted as expired.
isTokenExpiredInclusive(tokenData) ==
    now >= tokenData.expiresAt - TOKEN_REFRESH_BUFFER_MS

isTokenExpired(tokenData) ==
    now > tokenData.expiresAt - TOKEN_REFRESH_BUFFER_MS

canRefreshToken(tokenData) == tokenData.refreshToken # NoRefreshToken

\* ensureValidToken(provider, tokenData) up to its return, its throw, or the
\* POST of refreshAccessToken; the record is what is known of the call.
ensureValidToken(caller, tokenData) ==
    IF ~isTokenExpired(tokenData)
    THEN [pc |-> "returned", caller |-> caller, at |-> now, input |-> tokenData,
          output |-> tokenData, posts |-> 0, doneAt |-> now, expiresIn |-> 0, refresh_token |-> NoRefreshToken]
    ELSE IF ~canRefreshToken(tokenData)
    THEN [pc |-> "threw", caller |-> caller, at |-> now, input |-> tokenData,
          output |-> NoTokenData, posts |-> 0, doneAt |-> now, expiresIn |-> 0, refresh_token |-> NoRefreshToken]
    ELSE [pc |-> "refreshing", caller |-> caller, at |-> now, input |-> tokenData,
          output |-> NoTokenData, posts |-> 1, doneAt |-> 0, expiresIn |-> 0, refresh_token |-> NoRefreshToken]

\* A refresh that patches the expiry of the stored object and keeps its
\* access token.
newTokensInPlace(refreshToken, expires_in) ==
    [auth EXCEPT !.expiresAt = now + expires_in * 1000]

\* A refresh that takes the refresh token from the response alone.
refreshTokenOfResponse(refresh_token, refreshToken) == refresh_token

\* data.refresh_token || refreshToken: the refresh token of the response,
\* or the one the refresh was made with when the response has none.
refreshTokenAfter(refresh_token, refreshToken) ==
    IF refresh_token # NoRefreshToken THEN refresh_token ELSE refreshToken

\* The token refreshAccessToken builds from a 200 response.
newTokens(refreshToken, expires_in) ==
    [id |-> ev.input.id + 1, expiresAt |-> now + expires_in * 1000,
     refreshToken |-> refreshToken]

\* The result of a request from the status of its last response.
\* makeAuthenticatedRequest returns the body of a 200 and throws otherwise
\* (after a re-send: always an "auth" error); the WithHeaders variant hands
\* every status to its caller.
requestOutcome(kind, resent, st) ==
    IF kind = "headers" THEN "status"
    ELSE IF resent THEN (IF st = 200 THEN "ok" ELSE "authError")
    ELSE IF st < 400 THEN "ok"
    ELSE IF st = 403 THEN "permissionError"
    ELSE "unknownError"

\* The re-send of the request after connect() returned true.
resend(r, token) ==
    [r EXCEPT !.pc = "sent2", !.attempts = @ + 1,
              !.sentWith = Append(@, token.id)]

\* connect() of a provider outside a request.
connect ==
    /\ req.pc \in {"idle", "done"}
    /\ ev.pc # "refreshing"
    /\ LET e == ensureValidToken("connect", auth)
       IN  /\ e.pc = "refreshing" => auth.id <= MaxRefreshes
           /\ ev' = e
           /\ currentStatus' = IF e.pc = "refreshing" THEN currentStatus
                                ELSE statusAfterConnect(e.pc = "returned")
    /\ UNCHANGED <<auth, req, now, authRest>>
    /\ UNCHANGED <<writeVars, fetchRest, dateVars, convVars,
                 mgrVars, callVars>>

\* makeAuthenticatedRequest (kind "plain") or makeAuthenticatedRequestWithHeaders
\* (kind "headers") sends the request with the stored access token.
apiRequest(kind) ==
    /\ req.pc \in {"idle", "done"}
    /\ ev.pc # "refreshing"
    /\ req' = [NoApiCall EXCEPT !.kind = kind, !.pc = "sent1", !.attempts = 1,
                                !.sentWith = <<auth.id>>]
    /\ UNCHANGED <<auth, ev, now, authRest>>
    /\ UNCHANGED <<writeVars, fetchVars, dateVars, convVars,
                 mgrVars, callVars>>

\* The first response. On 401 the provider awaits connect(): true re-sends the
\* request with this.config.auth.accessToken, false throws an "auth" error.
apiResponse1(st) ==
    /\ req.pc = "sent1"
    /\ LET r == [req EXCEPT !.statuses = Append(@, st)]
           e == ensureValidToken("request", auth)
       IN  IF st # 401
           THEN /\ req' = [r EXCEPT !.pc = "done",
                                    !.outcome = requestOutcome(req.kind, FALSE, st)]
                /\ ev' = ev
                /\ currentStatus' = currentStatus
           ELSE /\ e.pc = "refreshing" => auth.id <= MaxRefreshes
                /\ ev' = e
                /\ currentStatus' = IF e.pc = "refreshing" THEN currentStatus
                                     ELSE statusAfterConnect(e.pc = "returned")
                /\ req' = CASE e.pc = "returned" -> resend(r, e.output)
                            [] e.pc = "threw" ->
                                 [r EXCEPT !.pc = "done", !.outcome = "authError"]
                            [] e.pc = "refreshing" ->
                                 [r EXCEPT !.pc = "connecting", !.refreshes = @ + 1]
    /\ UNCHANGED <<auth, now, authRest>>
    /\ UNCHANGED <<writeVars, fetchRest, dateVars, convVars,
                 mgrVars, callVars>>

\* The token endpoint answers the POST of refreshAccessToken. 200: the new
\* token is returned, connect() stores it, and a waiting request is re-sent
\* with it. Any other answer throws: connect() is false.
refreshResponse(ok, expires_in, rotated) ==
    /\ ev.pc = "refreshing"
    /\ IF ok
       THEN LET refresh_token == IF rotated THEN ev.input.id + 1
                                 ELSE NoRefreshToken
                t == newTokens(refreshTokenAfter(refresh_token,
                                                 ev.input.refreshToken),
                               expires_in)
            IN  /\ ev' = [ev EXCEPT !.pc = "returned", !.output = t,
                                    !.doneAt = now, !.expiresIn = expires_in,
                                    !.refresh_token = refresh_token]
                /\ auth' = t
                /\ req' = IF ev.caller = "request" THEN resend(req, t) ELSE req
       ELSE /\ ev' = [ev EXCEPT !.pc = "threw", !.doneAt = now]
            /\ auth' = auth
            /\ req' = IF ev.caller = "request"
                      THEN [req EXCEPT !.pc = "done", !.outcome = "authError"]
                      ELSE req
    /\ currentStatus' = statusAfterConnect(ok)
    /\ UNCHANGED <<now, authRest>>
    /\ UNCHANGED <<writeVars, fetchRest, dateVars, convVars,
                 mgrVars, callVars>>

\* The response to the re-sent request ends the call.
apiResponse2(st) ==
    /\ req.pc = "sent2"
    /\ req' = [req EXCEPT !.pc = "done", !.statuses = Append(@, st),
                          !.outcome = requestOutcome(req.kind, TRUE, st)]
    /\ UNCHANGED <<auth, ev, now, authRest>>
    /\ UNCHANGED <<writeVars, fetchVars, dateVars, convVars,
                 mgrVars, callVars>>

\* The clock moves to the next instant.
tokenTick ==
    /\ \E t \in TokenTimes : t > now
    /\ now' = CHOOSE t \in TokenTimes :
                  t > now /\ \A u \in TokenTimes : u > now => t <= u
    /\ UNCHANGED <<auth, req, ev, authRest>>
    /\ UNCHANGED <<writeVars, fetchVars, dateVars, convVars,
                 mgrVars, callVars>>

\* disconnect(): this.config.auth = undefined, then status "disabled".
\* (Google first awaits the revocation of the token.)
disconnect ==
    /\ auth # NoTokenData
    /\ auth' = NoTokenData
    /\ currentStatus' = "disabled"
    /\ UNCHANGED <<req, ev, now, authRest>>
    /\ UNCHANGED <<writeVars, fetchRest, dateVars, convVars,
                 mgrVars, callVars>>

ApiStatuses == {200, 401, 403, 404, 429}

NextToken ==
    \/ connect
    \/ \E k \in {"plain", "headers"} : apiRequest(k)
    \/ \E st \in ApiStatuses : apiResponse1(st)
    \/ \E ok \in BOOLEAN, x \in ExpiresIn, r \in BOOLEAN :
           refreshResponse(ok, x, r)
    \/ \E st \in ApiStatuses : apiResponse2(st)
    \/ tokenTick

\* The same with disconnect(). The caller supplies no new configuration and
\* starts no call on a provider it has disconnected; the calls in flight
\* run on.
NextDisconnect ==
    \/ auth # NoTokenData /\ connect
    \/ /\ auth # NoTokenData
       /\ \E k \in {"plain", "headers"} : apiRequest(k)
    \/ \E st \in ApiStatuses : apiResponse1(st)
    \/ \E ok \in BOOLEAN, x \in ExpiresIn, r \in BOOLEAN :
           refreshResponse(ok, x, r)
    \/ \E st \in ApiStatuses : apiResponse2(st)
    \/ tokenTick
    \/ disconnect

\* ------------------------------------------------------------------------
\* All-day end dates on the wire
\* ------------------------------------------------------------------------
MaxDay == 5

HourMs == 60 * 60 * 1000
\* Calendar days of the local time zone are numbered 0, 1, 2, ...; a date
\* string (YYYY-MM-DD or YYYYMMDD) is the number of its day.
Days == 0..(MaxDay + 1)
\* The local time zone: no change of local time, or one day on which clocks
\* go back (the day has 25 hours) or forward (23 hours).
ZoneChoices ==
    {[kind |-> "none", day |-> 0]} \cup
    {[kind |-> k, day |-> d] : k \in {"back", "forward"}, d \in 1..(MaxDay - 1)}

NoConversion == [provider |-> "none", pc |-> "idle", D |-> 0, wire |-> 0,
                 recovered |-> 0]

DatesIdle ==
    /\ zone = [kind |-> "none", day |-> 0]
    /\ conv = NoConversion

DatesInitial ==
    /\ zone \in ZoneChoices
    /\ conv = NoConversion

\* Length of local day d in milliseconds.
DayLength(d) ==
    IF zone.kind = "back" /\ zone.day = d THEN 25 * HourMs
    ELSE IF zone.kind = "forward" /\ zone.day = d THEN 23 * HourMs
    ELSE 24 * HourMs

RECURSIVE Midnight(_)
\* new Date(year, month - 1, day).getTime(): the instant of local midnight.
Midnight(d) == IF d = 0 THEN 0 ELSE Midnight(d - 1) + DayLength(d - 1)

\* getFullYear / getMonth / getDate of an instant: the local day it lies in.
DayOf(t) == CHOOSE d \in Days : Midnight(d) <= t /\ t < Midnight(d + 1)

\* date.setDate(date.getDate() + n): the same local time n days away
\* (used on local midnights only).
setDate(t, n) == Midnight(DayOf(t) + n) + (t - Midnight(DayOf(t)))

\* Google read of end.date.
parseAllDayDateExclusive(dateStr) == setDate(Midnight(dateStr), -1)

\* Outlook read of an all-day end: parseGraphDateTime, then setDate(-1).
parseGraphDateTime(dateStr) == Midnight(dateStr)
convertOutlookEnd(dateStr) == setDate(parseGraphDateTime(dateStr), -1)

\* CalDAV read of DTEND;VALUE=DATE is done by IcsParser: one day is
\* subtracted from the exclusive date.
parseIcsEnd(dateStr) == setDate(Midnight(dateStr), -1)

\* Google / Outlook write of an all-day end date.
toGoogleDateTime(date) == DayOf(date + 24 * 60 * 60 * 1000)
toGraphDateTime(date) == DayOf(date + 24 * 60 * 60 * 1000)

\* CalDAV write: generateIcsString, setDate(+1) then formatDateOnly.
formatDateOnly(date) == DayOf(date)
generateIcsEnd(date) == formatDateOnly(setDate(date, 1))

\* A provider writes the all-day event whose inclusive end date is local
\* midnight of day D.
writeEnd(p, D) ==
    /\ conv.pc # "written"
    /\ conv' = [provider |-> p, pc |-> "written", D |-> D, recovered |-> 0,
                wire |-> CASE p = "google" -> toGoogleDateTime(Midnight(D))
                           [] p = "outlook" -> toGraphDateTime(Midnight(D))
                           [] p = "caldav" -> generateIcsEnd(Midnight(D))]
    /\ UNCHANGED zone
    /\ UNCHANGED <<authVars, writeVars, fetchVars, tokenVars, convVars,
                 mgrVars, callVars>>

\* The same provider reads the event back.
readEnd ==
    /\ conv.pc = "written"
    /\ conv' = [conv EXCEPT
                  !.pc = "read",
                  !.recovered =
                      DayOf(CASE conv.provider = "google" ->
                                   parseAllDayDateExclusive(conv.wire)
                              [] conv.provider = "outlook" ->
                                   convertOutlookEnd(conv.wire)
                              [] conv.provider = "caldav" ->
                                   parseIcsEnd(conv.wire))]
    /\ UNCHANGED zone
    /\ UNCHANGED <<authVars, writeVars, fetchVars, tokenVars, convVars,
                 mgrVars, callVars>>

NextDates ==
    \/ \E p \in WriteProviders, D \in 1..(MaxDay - 1) : writeEnd(p, D)
    \/ readEnd

\* ------------------------------------------------------------------------
\* Field conversions: the PATCH bodies and the enum conversions on read
\* ------------------------------------------------------------------------
\* A property of the IcsEvent the caller did not set.
Undefined == "undefined"
\* A key the JSON body does not carry.
Absent == "absent"

TokenRestProviders == {"google", "outlook"}

\* The IcsEvent handed to updateEvent: texts may be empty, the enums may be
\* the empty string or a value the switch does not know, priority may be 0.
\* NoPriority stands for a priority that is undefined.
NoPriority == 0 - 1
TextValues == {Undefined, "", "text"}
DateValues == {Undefined, "date"}
StatusValues == {Undefined, "", "TENTATIVE", "X-OTHER"}
TranspValues == {Undefined, "", "TRANSPARENT", "OPAQUE"}
PriorityValues == {NoPriority, 0, 1, 5}
IcsEvents == [summary : TextValues, description : TextValues,
              location : TextValues, dtstart : DateValues,
              dtend : DateValues, allDay : BOOLEAN, status : StatusValues,
              transp : TranspValues, priority : PriorityValues]

\* JavaScript truthiness of a string or Date property.
Truthy(v) == v \notin {Undefined, ""}

NoMapping == [fn |-> "none", provider |-> "none", input |-> Undefined,
              output |-> Undefined]

ConvertIdle == mapped = NoMapping

mapIcsStatusToGoogle(status) ==
    CASE status = "CONFIRMED" -> "confirmed"
      [] status = "TENTATIVE" -> "tentative"
      [] status = "CANCELLED" -> "cancelled"
      [] OTHER -> "confirmed"

mapPriorityToImportance(priority) ==
    IF priority >= 1 /\ priority <= 4 THEN "high"
    ELSE IF priority = 5 THEN "normal"
    ELSE IF priority >= 6 /\ priority <= 9 THEN "low"
    ELSE "normal"

\* The shape of the date-time object put in start / end.
wireDateTime(allDay) == IF allDay THEN "date" ELSE "dateTime"

\* A body that carries every field, converted from whatever the event holds.
googleFullBody(event) ==
    [summary |-> event.summary,
     description |-> event.description,
     location |-> event.location,
     start |-> wireDateTime(event.allDay),
     end |-> wireDateTime(event.allDay),
     status |-> mapIcsStatusToGoogle(event.status),
     transparency |->
         IF event.transp = "TRANSPARENT" THEN "transparent" ELSE "opaque"]

googleBuildPatchBody(event) ==
    [summary |-> IF event.summary # Undefined THEN event.summary ELSE Absent,
     description |->
         IF event.description # Undefined THEN event.description ELSE Absent,
     location |->
         IF event.location # Undefined THEN event.location ELSE Absent,
     start |-> IF Truthy(event.dtstart) THEN wireDateTime(event.allDay)
               ELSE Absent,
     end |-> IF Truthy(event.dtend) THEN wireDateTime(event.allDay)
             ELSE Absent,
     status |-> IF Truthy(event.status)
                THEN mapIcsStatusToGoogle(event.status) ELSE Absent,
     transparency |->
         IF Truthy(event.transp)
         THEN (IF event.transp = "TRANSPARENT" THEN "transparent"
               ELSE "opaque")
         ELSE Absent]

outlookBuildPatchBody(event) ==
    [subject |-> IF event.summary # Undefined THEN event.summary ELSE Absent,
     body |->
         IF event.description # Undefined THEN event.description ELSE Absent,
     location |->
         IF event.location # Undefined THEN event.location ELSE Absent,
     start |-> IF Truthy(event.dtstart) THEN wireDateTime(event.allDay)
               ELSE Absent,
     isAllDay |-> IF Truthy(event.dtstart)
                  THEN (IF event.allDay THEN "true" ELSE "false")
                  ELSE Absent,
     end |-> IF Truthy(event.dtend) THEN wireDateTime(event.allDay)
             ELSE Absent,
     showAs |-> IF Truthy(event.transp)
                THEN (IF event.transp = "TRANSPARENT" THEN "free"
                      ELSE "busy")
                ELSE Absent,
     importance |-> IF event.priority # NoPriority
                    THEN mapPriorityToImportance(event.priority)
                    ELSE Absent]

\* updateEvent builds the body of its PATCH from the event it was given;
\* each behaviour follows one conversion.
buildPatchBody(p) ==
    /\ mapped = NoMapping
    /\ \E event \in IcsEvents :
           mapped' = [fn |-> "buildPatchBody", provider |-> p,
                      input |-> event,
                      output |-> IF p = "google"
                                 THEN googleBuildPatchBody(event)
                                 ELSE outlookBuildPatchBody(event)]
    /\ UNCHANGED <<authVars, writeVars, fetchVars, tokenVars, dateVars,
                   mgrVars, callVars>>

\* The remote events the read conversions see: each enum may be absent or
\* hold a value the provider added after the code was written; an absent
\* isCancelled reads as false.
GoogleEvents == [status : {Undefined, "confirmed", "tentative", "cancelled",
                           "unrecognized"},
                 transparency : {Undefined, "opaque", "transparent",
                                 "unrecognized"}]
GraphEvents == [isCancelled : BOOLEAN,
                response : {Undefined, "accepted", "tentativelyAccepted"},
                showAs : {Undefined, "free", "busy", "oof", "unknown"},
                importance : {Undefined, "low", "normal", "high",
                              "unrecognized"}]

mapGoogleStatus(status) ==
    CASE status = "confirmed" -> "CONFIRMED"
      [] status = "tentative" -> "TENTATIVE"
      [] status = "cancelled" -> "CANCELLED"
      [] OTHER -> Undefined

mapOutlookStatus(oEvent) ==
    IF oEvent.isCancelled THEN "CANCELLED"
    ELSE IF oEvent.response = "tentativelyAccepted" THEN "TENTATIVE"
    ELSE "CONFIRMED"

mapShowAsToTransparency(showAs) ==
    CASE showAs = "free" -> "TRANSPARENT"
      [] showAs \in {"tentative", "busy", "oof", "workingElsewhere"} ->
             "OPAQUE"
      [] OTHER -> Undefined

mapImportanceToPriority(importance) ==
    CASE importance = "high" -> 1
      [] importance = "normal" -> 5
      [] importance = "low" -> 9
      [] OTHER -> NoPriority

\* The status, transp and priority of the IcsEvent built from a remote
\* event; the Google conversion sets no priority.
convertGoogleEvent(gEvent) ==
    [status |-> mapGoogleStatus(gEvent.status),
     transp |-> gEvent.transparency]

convertOutlookEvent(oEvent) ==
    [status |-> mapOutlookStatus(oEvent),
     transp |-> mapShowAsToTransparency(oEvent.showAs),
     priority |-> mapImportanceToPriority(oEvent.importance)]

convertEvent(p) ==
    /\ mapped = NoMapping
    /\ \E remoteEvent \in IF p = "google" THEN GoogleEvents
                           ELSE GraphEvents :
           mapped' = [fn |-> "convertEvent", provider |-> p,
                      input |-> remoteEvent,
                      output |-> IF p = "google"
                                 THEN convertGoogleEvent(remoteEvent)
                                 ELSE convertOutlookEvent(remoteEvent)]
    /\ UNCHANGED <<authVars, writeVars, fetchVars, tokenVars, dateVars,
                   mgrVars, callVars>>

\* convertIcsEventToGoogleEvent(event): the body of createEvent. The texts
\* are always set; status and transparency only when the event holds one.
convertIcsEventToGoogleEvent(event) ==
    [summary |-> event.summary,
     description |-> event.description,
     location |-> event.location,
     start |-> wireDateTime(event.allDay),
     end |-> wireDateTime(event.allDay),
     status |-> IF Truthy(event.status)
                THEN mapIcsStatusToGoogle(event.status) ELSE Absent,
     transparency |->
         IF Truthy(event.transp)
         THEN (IF event.transp = "TRANSPARENT" THEN "transparent"
               ELSE "opaque")
         ELSE Absent]

\* The IcsEvent of a Google event as the write path receives it back: the
\* fields convertGoogleEvent sets, next to a title and two dates.
icsEventOf(gEvent) ==
    [summary |-> "text", description |-> Undefined, location |-> Undefined,
     dtstart |-> "date", dtend |-> "date", allDay |-> FALSE,
     status |-> convertGoogleEvent(gEvent).status,
     transp |-> convertGoogleEvent(gEvent).transp,
     priority |-> NoPriority]

\* A Google event is read with convertGoogleEvent and written back with
\* buildPatchBody (updateEvent) and convertIcsEventToGoogleEvent
\* (createEvent).
roundTrip ==
    /\ mapped = NoMapping
    /\ \E gEvent \in GoogleEvents :
           mapped' = [fn |-> "roundTrip", provider |-> "google",
                      input |-> gEvent,
                      output |->
                          [patchBody |->
                               googleBuildPatchBody(icsEventOf(gEvent)),
                           googleEvent |->
                               convertIcsEventToGoogleEvent(
                                   icsEventOf(gEvent))]]
    /\ UNCHANGED <<authVars, writeVars, fetchVars, tokenVars, dateVars,
                   mgrVars, callVars>>

\* The error taxonomy and the messages an error can carry (server text,
\* URLs, account names).
ProviderErrorTypes == {"auth", "network", "rate_limit", "not_found",
                       "permission", "parse", "timeout", "unknown"}
ErrorMessages == {"Not found: /calendars/alice@example.com/events/17",
                  "API request failed: 500"}
ProviderErrors == [type : ProviderErrorTypes, message : ErrorMessages]

\* The text of the Notice of showErrorNotice, as the sequence of its parts;
\* this.config.name is the part "config.name".
showErrorNotice(error) ==
    CASE error.type = "auth" ->
             <<"Authentication failed. Please reconnect your calendar.">>
      [] error.type = "network" ->
             <<"Network error. Please check your internet connection.">>
      [] error.type = "rate_limit" ->
             <<"Too many requests. Please try again later.">>
      [] error.type = "permission" ->
             <<"Permission denied. Please check calendar permissions.">>
      [] error.type = "timeout" ->
             <<"Request timed out. Please try again.">>
      [] OTHER -> <<"config.name", ": ", error.message>>

\* handleError(error, context) with a ProviderError: the status becomes
\* "error" and the notice is shown.
handleError ==
    /\ mapped = NoMapping
    /\ \E error \in ProviderErrors :
           mapped' = [fn |-> "handleError", provider |-> "base",
                      input |-> error,
                      output |-> showErrorNotice(error)]
    /\ currentStatus' = "error"
    /\ UNCHANGED <<authVars, writeVars, fetchRest, tokenVars, dateVars,
                   mgrVars, callVars>>

NextConvert ==
    \/ \E p \in TokenRestProviders : buildPatchBody(p)
    \/ \E p \in TokenRestProviders : convertEvent(p)
    \/ handleError
    \/ roundTrip

\* ------------------------------------------------------------------------
\* CalendarSourceManager
\* ------------------------------------------------------------------------
MaxSources == 2
MaxInstances == 3
MaxRemovals == 2

SourceIds == 1..MaxSources
InstanceIds == 1..MaxInstances
RemovalIds == 1..MaxRemovals

\* The type of a configured source: source 1 is a Google calendar, the
\* others are Outlook calendars.
sourceType(id) == IF id = 1 THEN "google" ELSE "outlook"

\* The CalendarSource objects handed to getProvider: auth tells whether
\* the source carries a token.
CalendarSources ==
    {source \in [id : SourceIds, type : TokenRestProviders, auth : BOOLEAN] :
         source.type = sourceType(source.id)}
NoSource == [id |-> 0, type |-> "none", auth |-> FALSE]

\* A provider object: created is false for an object not constructed yet.
NoInstance == [created |-> FALSE, kind |-> "none", config |-> NoSource,
               status |-> "idle", disconnected |-> FALSE,
               unloaded |-> FALSE]
\* A removeProvider invocation waiting for the POST of revokeTokens: the
\* source id it was given and the provider it looked up.
NoRemoval == [pc |-> "idle", sourceId |-> 0, provider |-> 0]
\* A call that returned: for getProvider the provider returned and whether
\* it was constructed by the call; for removeProvider the provider looked
\* up, the number of revokeTokens calls made, what the revocation was
\* answered, and what revokeTokens emitted and threw.
NoCallReturned == [op |-> "none", sourceId |-> 0, provider |-> 0,
                   created |-> FALSE, revokeCalls |-> 0, answer |-> "none",
                   emitted |-> 0, threw |-> FALSE]

\* A disconnectAll invocation: the providers it took from the map, those
\* whose disconnect() is still awaited, and the providers that clear()
\* removed from the map.
NoSweep == [pc |-> "idle", snapshot |-> {}, awaited |-> {}, dropped |-> {}]

ManagerIdle ==
    /\ providers = [id \in SourceIds |-> 0]
    /\ instances = [i \in InstanceIds |-> NoInstance]
    /\ removals = [c \in RemovalIds |-> NoRemoval]
    /\ last = NoCallReturned
    /\ sweep = NoSweep

\* new GoogleCalendarProvider(source, authManager) and the like.
createProvider(source) ==
    [created |-> TRUE, kind |-> source.type, config |-> source,
     status |-> "idle", disconnected |-> FALSE, unloaded |-> FALSE]

updateConfig(provider, newConfig) == [provider EXCEPT !.config = newConfig]

getProvider(source) ==
    /\ IF providers[source.id] # 0
       THEN /\ instances' =
                  [instances EXCEPT ![providers[source.id]] =
                       updateConfig(@, source)]
            /\ last' = [NoCallReturned EXCEPT
                          !.op = "getProvider", !.sourceId = source.id,
                          !.provider = providers[source.id]]
            /\ UNCHANGED providers
       ELSE /\ \E i \in InstanceIds : ~instances[i].created
            /\ LET i == CHOOSE i \in InstanceIds :
                            /\ ~instances[i].created
                            /\ \A j \in InstanceIds :
                                   ~instances[j].created => i <= j
               IN  /\ instances' =
                         [instances EXCEPT ![i] = createProvider(source)]
                   /\ providers' = [providers EXCEPT ![source.id] = i]
                   /\ last' = [NoCallReturned EXCEPT
                                 !.op = "getProvider",
                                 !.sourceId = source.id, !.provider = i,
                                 !.created = TRUE]
    /\ UNCHANGED <<removals, sweep>>
    /\ UNCHANGED <<authVars, writeVars, fetchVars, tokenVars, dateVars,
                   convVars, callVars>>

\* A revokeTokens that stays silent when the revocation fails.
revokeTokensSilentOnFailure(outcome) ==
    [threw |-> FALSE, emitted |-> IF outcome = "ok" THEN 1 ELSE 0]

\* revokeTokens, from the answer to its POST on: what it throws and how
\* many "disconnected" events it emits. requestUrl rejects for a network
\* failure and for a status of 400 or more; emit catches what a listener
\* throws.
revokeTokens(outcome) == [threw |-> FALSE, emitted |-> 1]

\* disconnect() of either provider, from the point where revokeTokens has
\* settled: config.auth = undefined, status "disabled".
disconnectReturns(provider) ==
    [provider EXCEPT !.config.auth = FALSE, !.status = "disabled",
                     !.disconnected = TRUE]

unload(provider) == [provider EXCEPT !.unloaded = TRUE]

\* Whether disconnect() of the provider waits for the network.
Suspends(provider) == provider.kind = "google" /\ provider.config.auth

\* removeProvider(sourceId), up to the point where it first waits for the
\* network: to its end when the provider is absent or its disconnect()
\* sends nothing, to the POST of revokeTokens otherwise. The invocation is
\* recorded in the first record that holds no invocation in progress.
removeProvider(c, sourceId) ==
    /\ removals[c].pc = "idle"
    /\ \A b \in RemovalIds : b < c => removals[b].pc = "revoking"
    /\ LET provider == providers[sourceId]
           returned == [NoCallReturned EXCEPT !.op = "removeProvider",
                                             !.sourceId = sourceId,
                                             !.provider = provider]
       IN
       IF provider = 0
       THEN /\ last' = returned
            /\ UNCHANGED <<providers, instances, removals>>
       ELSE IF Suspends(instances[provider])
       THEN /\ removals' = [removals EXCEPT ![c] =
                  [pc |-> "revoking", sourceId |-> sourceId,
                   provider |-> provider]]
            /\ UNCHANGED <<providers, instances, last>>
       ELSE /\ last' = returned
            /\ instances' = [instances EXCEPT ![provider] =
                                 unload(disconnectReturns(@))]
            /\ providers' = [providers EXCEPT ![sourceId] = 0]
            /\ UNCHANGED removals
    /\ UNCHANGED sweep
    /\ UNCHANGED <<authVars, writeVars, fetchVars, tokenVars, dateVars,
                   convVars, callVars>>

\* The POST of revokeTokens settles: revokeTokens returns, disconnect()
\* clears the token, and removeProvider unloads the provider it looked up
\* and deletes the entry of the source id.
revokeResponse(c, outcome) ==
    /\ removals[c].pc = "revoking"
    /\ removals' = [removals EXCEPT ![c] = NoRemoval]
    /\ last' = [NoCallReturned EXCEPT
                   !.op = "removeProvider",
                   !.sourceId = removals[c].sourceId,
                   !.provider = removals[c].provider,
                   !.revokeCalls = 1, !.answer = outcome,
                   !.emitted = revokeTokens(outcome).emitted,
                   !.threw = revokeTokens(outcome).threw]
    /\ instances' = [instances EXCEPT ![removals[c].provider] =
                         unload(disconnectReturns(@))]
    /\ providers' = [providers EXCEPT ![removals[c].sourceId] = 0]
    /\ UNCHANGED sweep
    /\ UNCHANGED <<authVars, writeVars, fetchVars, tokenVars, dateVars,
                   convVars, callVars>>

RevokeOutcomes == {"ok", "rejected"}

\* Array.from(this.providers.values())
providerValues == {providers[id] : id \in SourceIds} \ {0}

\* this.providers.clear()
clear == [id \in SourceIds |-> 0]

\* disconnectAll(), up to the await of Promise.all: disconnect() is called
\* on every provider of the map; a provider whose disconnect() sends
\* nothing is disconnected and unloaded, the others are awaited. With
\* nothing to await the map is cleared and the call resolves.
disconnectAll ==
    /\ sweep.pc # "awaiting"
    /\ \A c \in RemovalIds : removals[c].pc = "idle"
    /\ LET snapshot == providerValues
           awaited == {i \in snapshot : Suspends(instances[i])}
       IN  /\ instances' =
                 [i \in InstanceIds |->
                     IF i \in snapshot \ awaited
                     THEN unload(disconnectReturns(instances[i]))
                     ELSE instances[i]]
           /\ IF awaited = {}
              THEN /\ providers' = clear
                   /\ sweep' = [pc |-> "resolved", snapshot |-> snapshot,
                                awaited |-> {}, dropped |-> providerValues]
              ELSE /\ providers' = providers
                   /\ sweep' = [pc |-> "awaiting", snapshot |-> snapshot,
                                awaited |-> awaited, dropped |-> {}]
    /\ UNCHANGED <<removals, last>>
    /\ UNCHANGED <<authVars, writeVars, fetchVars, tokenVars, dateVars,
                   convVars, callVars>>

\* The POST of revokeTokens of an awaited disconnect() settles: the provider
\* is disconnected and unloaded. When it was the last one awaited,
\* Promise.all resolves, the map is cleared and disconnectAll resolves.
disconnectSettles(i, outcome) ==
    /\ sweep.pc = "awaiting"
    /\ i \in sweep.awaited
    /\ instances' = [instances EXCEPT ![i] = unload(disconnectReturns(@))]
    /\ IF sweep.awaited = {i}
       THEN /\ providers' = clear
            /\ sweep' = [sweep EXCEPT !.pc = "resolved", !.awaited = {},
                                      !.dropped = providerValues]
       ELSE /\ providers' = providers
            /\ sweep' = [sweep EXCEPT !.awaited = @ \ {i}]
    /\ UNCHANGED <<removals, last>>
    /\ UNCHANGED <<authVars, writeVars, fetchVars, tokenVars, dateVars,
                   convVars, callVars>>

NextManager ==
    \/ \E source \in CalendarSources : getProvider(source)
    \/ \E c \in RemovalIds, sourceId \in SourceIds :
           removeProvider(c, sourceId)
    \/ \E c \in RemovalIds, outcome \in RevokeOutcomes :
           revokeResponse(c, outcome)

\* getProvider calls around a disconnectAll.
NextSweep ==
    \/ \E source \in CalendarSources : getProvider(source)
    \/ disconnectAll
    \/ \E i \in InstanceIds, outcome \in RevokeOutcomes :
           disconnectSettles(i, outcome)

\* ------------------------------------------------------------------------
\* AppleCaldavProvider.listCalendars: the discovery of the calendar home set
\* ------------------------------------------------------------------------
MaxElements == 2

DEFAULT_CALDAV_SERVER == "https://caldav.icloud.com/"
\* this.config.serverUrl: the settings field, possibly emptied by the user.
ServerUrls == {"", DEFAULT_CALDAV_SERVER}
\* The text of an href element: empty, blank, a path, an absolute URL.
AbsoluteHref == "https://p01-caldav.icloud.com/1/"
HrefTexts == {"", " ", "/1/principal/", AbsoluteHref}
\* The elements a PROPFIND answer is made of: an opening tag (its local
\* name) and the text that follows it up to the next tag.
TagNames == {"current-user-principal", "calendar-home-set", "href",
             "unauthenticated"}
Elements == [tag : TagNames, text : HrefTexts]
RECURSIVE SeqsUpTo(_, _)
SeqsUpTo(S, n) ==
    IF n = 0 THEN {<<>>}
    ELSE LET shorter == SeqsUpTo(S, n - 1)
         IN  shorter \cup {Append(q, e) : q \in shorter, e \in S}
\* response.text of a PROPFIND answer.
Bodies == SeqsUpTo(Elements, MaxElements)
\* The answers of the server to one request: requestUrl rejects, or
\* resolves with a status and a text.
TransportFailure == [kind |-> "transport", status |-> 0, text |-> <<>>]
Responses ==
    {TransportFailure}
    \cup [kind : {"http"}, status : {401, 500}, text : {<<>>}]
    \cup [kind : {"http"}, status : {207}, text : Bodies]
\* The same without the text, which listCalendarsInHomeSet parses apart.
BareResponses ==
    {TransportFailure}
    \cup [kind : {"http"}, status : {207, 401, 500}, text : {<<>>}]

\* String.prototype.trim on the texts above.
trim(text) == IF text = " " THEN "" ELSE text
\* \s* matches the text between two tags.
OnlyWhitespace(text) == text \in {"", " "}

\* extractHref(xml, propertyName): the first place where a tag holding the
\* property name is followed, after whitespace only, by a tag holding
\* "href" with at least one character of text; that text, trimmed. The
\* value "" stands for both null and the empty string, which are falsy alike.
extractHref(xml, propertyName) ==
    LET matches == {i \in 1..(Len(xml) - 1) :
                       /\ xml[i].tag = propertyName
                       /\ OnlyWhitespace(xml[i].text)
                       /\ xml[i + 1].tag = "href"
                       /\ xml[i + 1].text # ""}
    IN  IF matches = {} THEN ""
        ELSE LET first == CHOOSE i \in matches : \A j \in matches : i <= j
             IN  trim(xml[first + 1].text)

\* A test of the href that lets every value pass.
hrefNeverMissing(href) == FALSE

\* if (!principalHref), if (!homeSetHref)
hrefMissing(href) == href = ""

\* new URL(href, base) throws a TypeError when href is relative and base is
\* not a URL.
urlThrows(href, base) == href # AbsoluteHref /\ base = ""

\* makePropfindRequest: the error it throws for an answer, "none" when it
\* returns response.text. A rejected requestUrl is categorised by
\* ProviderError.from in listCalendars.
TransportErrorTypes == {"network", "timeout", "unknown"}
propfindError(response) ==
    IF response.kind = "transport" THEN "transport"
    ELSE IF response.status = 401 THEN "auth"
    ELSE IF response.status >= 400 /\ response.status # 207 THEN "unknown"
    ELSE "none"

\* The call: the requests it has sent, how many of them were answered and
\* the last answer.
NoDiscovery == [pc |-> "idle", serverUrl |-> "", sent |-> <<>>,
                answered |-> 0, answer |-> TransportFailure,
                errorType |-> "none", calendars |-> 0]
DiscoveryIdle == discovery = NoDiscovery

\* listCalendars() up to the request of connect(); without an app-specific
\* password connect() returns false and listCalendars rejects.
listCalendars(serverUrl, appSpecificPassword) ==
    /\ discovery.pc = "idle"
    /\ discovery' =
          IF ~appSpecificPassword
          THEN [NoDiscovery EXCEPT !.pc = "rejected", !.serverUrl = serverUrl,
                                   !.errorType = "auth"]
          ELSE [NoDiscovery EXCEPT !.pc = "connect", !.serverUrl = serverUrl,
                                   !.sent = <<"connect">>]
    /\ UNCHANGED overlap
    /\ UNCHANGED <<authVars, writeVars, fetchVars, tokenVars, dateVars,
                   convVars, mgrVars>>

\* The state of the call once it rejects with an error of the given type.
discoveryRejected(d, response, type) ==
    [d EXCEPT !.pc = "rejected", !.errorType = type,
              !.answered = @ + 1, !.answer = response]
\* The state of the call once it sends its next request.
discoverySends(d, response, request) ==
    [d EXCEPT !.pc = request, !.sent = Append(@, request),
              !.answered = @ + 1, !.answer = response]

\* The answer to the request of connect(): an error makes connect() return
\* false; otherwise discoverCalendarHomeSet asks for the user principal.
connectResponse(response) ==
    /\ discovery.pc = "connect"
    /\ discovery' =
          IF propfindError(response) # "none"
          THEN discoveryRejected(discovery, response, "auth")
          ELSE discoverySends(discovery, response, "principal")
    /\ UNCHANGED overlap
    /\ UNCHANGED <<authVars, writeVars, fetchVars, tokenVars, dateVars,
                   convVars, mgrVars>>

\* discoverCalendarHomeSet after one of its two requests was answered: the
\* href of the property is extracted, resolved, and the next request sent.
discoveryStep(d, response, propertyName, next, transportType) ==
    LET error == propfindError(response)
        href == extractHref(response.text, propertyName)
    IN  IF error = "transport"
        THEN discoveryRejected(d, response, transportType)
        ELSE IF error # "none" THEN discoveryRejected(d, response, error)
        ELSE IF hrefMissing(href)
        THEN discoveryRejected(d, response, "not_found")
        ELSE IF urlThrows(href, d.serverUrl)
        THEN discoveryRejected(d, response, "unknown")
        ELSE discoverySends(d, response, next)

principalResponse(response, transportType) ==
    /\ discovery.pc = "principal"
    /\ discovery' = discoveryStep(discovery, response,
                                  "current-user-principal", "homeSet",
                                  transportType)
    /\ UNCHANGED overlap
    /\ UNCHANGED <<authVars, writeVars, fetchVars, tokenVars, dateVars,
                   convVars, mgrVars>>

homeSetResponse(response, transportType) ==
    /\ discovery.pc = "homeSet"
    /\ discovery' = discoveryStep(discovery, response, "calendar-home-set",
                                  "enumerate", transportType)
    /\ UNCHANGED overlap
    /\ UNCHANGED <<authVars, writeVars, fetchVars, tokenVars, dateVars,
                   convVars, mgrVars>>

\* listCalendarsInHomeSet: the Depth-1 answer; n of its responses are
\* calendar collections.
listCalendarsInHomeSet(response, n, transportType) ==
    /\ discovery.pc = "enumerate"
    /\ LET error == propfindError(response)
       IN  discovery' =
              IF error = "transport"
              THEN discoveryRejected(discovery, response, transportType)
              ELSE IF error # "none"
              THEN discoveryRejected(discovery, response, error)
              ELSE [discovery EXCEPT !.pc = "resolved", !.calendars = n,
                                     !.answered = @ + 1,
                                     !.answer = response]
    /\ UNCHANGED overlap
    /\ UNCHANGED <<authVars, writeVars, fetchVars, tokenVars, dateVars,
                   convVars, mgrVars>>

NextDiscovery ==
    \/ \E u \in ServerUrls, pw \in BOOLEAN : listCalendars(u, pw)
    \/ \E r \in BareResponses : connectResponse(r)
    \/ \E r \in Responses, t \in TransportErrorTypes :
           principalResponse(r, t)
    \/ \E r \in Responses, t \in TransportErrorTypes : homeSetResponse(r, t)
    \/ \E r \in BareResponses, n \in 0..MaxElements,
          t \in TransportErrorTypes : listCalendarsInHomeSet(r, n, t)

\* ------------------------------------------------------------------------
\* Specifications
\* ------------------------------------------------------------------------
InitAuth ==
    /\ now = 0
    /\ externalBusy \in ExternalBusyChoices
    /\ AuthIdle /\ WriteInitial /\ FetchInitial /\ TokenIdle /\ DatesIdle
    /\ ConvertIdle /\ ManagerIdle /\ DiscoveryIdle
    /\ OverlapIdle

InitPorts ==
    /\ now = 0
    /\ externalBusy \in PortChoices
    /\ AuthIdle /\ WriteInitial /\ FetchInitial /\ TokenIdle /\ DatesIdle
    /\ ConvertIdle /\ ManagerIdle /\ DiscoveryIdle
    /\ OverlapIdle

InitWrite ==
    /\ now = 0
    /\ externalBusy = {}
    /\ AuthIdle /\ WriteInitial /\ FetchInitial /\ TokenIdle /\ DatesIdle
    /\ ConvertIdle /\ ManagerIdle /\ DiscoveryIdle
    /\ OverlapIdle

InitFetch ==
    /\ now = 0
    /\ externalBusy = {}
    /\ AuthIdle /\ WriteInitial /\ FetchInitial /\ TokenIdle /\ DatesIdle
    /\ ConvertIdle /\ ManagerIdle /\ DiscoveryIdle
    /\ OverlapIdle

InitToken ==
    /\ now = StoredExpiresAt - TOKEN_REFRESH_BUFFER_MS - 1000
    /\ externalBusy = {}
    /\ AuthIdle /\ WriteInitial /\ FetchInitial /\ TokenInitial /\ DatesIdle
    /\ ConvertIdle /\ ManagerIdle /\ DiscoveryIdle
    /\ OverlapIdle

InitDates ==
    /\ now = 0
    /\ externalBusy = {}
    /\ AuthIdle /\ WriteInitial /\ FetchInitial /\ TokenIdle /\ DatesInitial
    /\ ConvertIdle /\ ManagerIdle /\ DiscoveryIdle
    /\ OverlapIdle

InitConvert ==
    /\ now = 0
    /\ externalBusy = {}
    /\ AuthIdle /\ WriteInitial /\ FetchInitial /\ TokenIdle /\ DatesIdle
    /\ ConvertIdle /\ ManagerIdle /\ DiscoveryIdle
    /\ OverlapIdle

InitManager ==
    /\ now = 0
    /\ externalBusy = {}
    /\ AuthIdle /\ WriteInitial /\ FetchInitial /\ TokenIdle /\ DatesIdle
    /\ ConvertIdle /\ ManagerIdle /\ DiscoveryIdle
    /\ OverlapIdle

InitDiscovery ==
    /\ now = 0
    /\ externalBusy = {}
    /\ AuthIdle /\ WriteInitial /\ FetchInitial /\ TokenIdle /\ DatesIdle
    /\ ConvertIdle /\ ManagerIdle /\ DiscoveryIdle
    /\ OverlapIdle

SpecAuth == InitAuth /\ [][NextAuth]_vars
SpecPorts == InitPorts /\ [][NextPorts]_vars
SpecCallback == InitAuth /\ [][NextCallback]_vars
SpecTeardown == InitAuth /\ [][NextTeardown]_vars
SpecWrite == InitWrite /\ [][NextWrite]_vars
SpecFetch == InitFetch /\ [][NextFetch]_vars
SpecOverlap == InitFetch /\ [][NextOverlap]_vars
SpecToken == InitToken /\ [][NextToken]_vars
SpecDisconnect == InitToken /\ [][NextDisconnect]_vars
SpecDates == InitDates /\ [][NextDates]_vars
SpecConvert == InitConvert /\ [][NextConvert]_vars
SpecManager == InitManager /\ [][NextManager]_vars
SpecSweep == InitManager /\ [][NextSweep]_vars
SpecDiscovery == InitDiscovery /\ [][NextDiscovery]_vars

\* ------------------------------------------------------------------------
\* Properties of the OAuth engine
\* ------------------------------------------------------------------------
ReplayOf(s) == [error |-> FALSE, code |-> TRUE, state |-> s]

\* C1: a state value is single-use. At most one token POST is ever issued per
\* state value, and the pending entry is gone from the map as soon as the
\* exchange of its state has started, whether that exchange is still in flight,
\* succeeded or failed.
StateSingleUse ==
    \A s \in States :
        /\ postCount[s] <= 1
        /\ Cardinality({r \in postLog : r.state = s}) <= 1
        /\ exchange[s] # "none" =>
              /\ pendingRequests[s] = NoRequest
              /\ ~callbackAccepted(ReplayOf(s))

\* C1 (case reached): the exchange of a state failed after its single POST, the
\* entry is gone, and a callback replaying the state can still be delivered.
ReplayAfterFailedExchange ==
    \E s \in States :
        /\ exchange[s] = "failed"
        /\ postCount[s] = 1
        /\ pendingRequests[s] = NoRequest
        /\ s \in CallbackStates
        /\ ~callbackAccepted(ReplayOf(s))

ExchangeBoundToFlow ==
    \A r \in postLog :
        /\ r.codeVerifier = r.state
        /\ srv[r.state].status # "none"
        /\ r.redirectUri = srv[r.state].port
        /\ r.redirectUri \in PortRange

\* C12 (case reached): a token POST was issued for the first flow after a
\* later flow had bound another port and opened its own authorization URL.
ExchangeAfterOtherFlow ==
    \E r \in postLog :
        \E g \in Flows :
            /\ g > r.state
            /\ flow[g].pc = "opened"
            /\ srv[g].port # r.redirectUri
            /\ pendingRequests[g] # NoRequest
            /\ pendingRequests[g].redirectUri # r.redirectUri

\* The base64url alphabet of RFC 4648, section 5, indexed by sextet + 1.
UrlAlphabet ==
    [i \in 1..64 |-> IF i = 63 THEN "-" ELSE IF i = 64 THEN "_"
                      ELSE Base64Alphabet[i]]

\* The bits of a byte string, most significant first.
BitAt(bytes, k) ==
    IF k > 8 * Len(bytes) THEN 0
    ELSE (bytes[((k - 1) \div 8) + 1] \div (2 ^ (7 - ((k - 1) % 8)))) % 2

\* base64url without padding: the bit string, filled with zero bits to a
\* multiple of six, read six bits at a time.
Base64UrlNoPad(bytes) ==
    [j \in 1..((8 * Len(bytes) + 5) \div 6) |->
        UrlAlphabet[BitAt(bytes, 6 * j - 5) * 32 + BitAt(bytes, 6 * j - 4) * 16
                    + BitAt(bytes, 6 * j - 3) * 8 + BitAt(bytes, 6 * j - 2) * 4
                    + BitAt(bytes, 6 * j - 1) * 2 + BitAt(bytes, 6 * j) + 1]]

\* The unpadded base64url text of the digest of every verifier, computed
\* once.
ExpectedChallenge == [v \in Flows |-> Base64UrlNoPad(sha256(v))]

\* C25: the authorization URL a flow opens carries code_challenge_method
\* S256 and, as code_challenge, the unpadded base64url text of the SHA-256
\* digest of the code verifier stored for the state of that URL.
ChallengeMatchesVerifier ==
    [][
        \A f \in Flows :
            flow[f].pc = "pkce" /\ flow'[f].pc = "opened" =>
                /\ flow'[f].url.code_challenge_method = "S256"
                /\ pendingRequests'[flow'[f].url.state] # NoRequest
                /\ flow'[f].url.code_challenge =
                       ExpectedChallenge[
                           pendingRequests'[flow'[f].url.state].codeVerifier]
    ]_vars

\* C25 (case reached): the second flow has opened its authorization URL,
\* whose challenge holds "-" and "_" and has the 43 characters of an
\* unpadded 32-byte digest.
ChallengeSent ==
    /\ flow[2].pc = "opened"
    /\ Len(flow[2].url.code_challenge) = 43
    /\ flow[2].url.code_challenge[1] = "-"
    /\ flow[2].url.code_challenge[3] = "_"
    /\ pendingRequests[2] # NoRequest
    /\ pendingRequests[2].codeVerifier = 2

\* C26: a startOAuthFlow that read no client id emits auth-error and
\* nothing else (no status-change "connecting"), and the step leaves the
\* pending map, the listeners and this.callbackServer as they were; such a
\* flow never stores a pending request, binds a listener or opens a URL.
NoClientIdFailsFast ==
    [][
        \A f \in Flows :
            flow'[f].pc # "idle" /\ flow'[f].clientId = "" =>
                /\ flow'[f].emitted = <<"auth-error">>
                /\ flow'[f].url = NoUrl
                /\ srv'[f] = NoServer
                /\ callbackServer' # f
                /\ \A s \in States : pendingRequests'[s] # NoRequest =>
                       pendingRequests'[s].codeVerifier # f
                /\ flow[f].pc = "idle" =>
                       /\ pendingRequests' = pendingRequests
                       /\ srv' = srv
                       /\ callbackServer' = callbackServer
                       /\ callbackPort' = callbackPort
    ]_vars

\* C26 (case reached): the second flow was started without a client id
\* while the listener and the pending request of the first were in place.
StartedWithoutClientId ==
    /\ flow[2].pc = "rejected"
    /\ flow[2].emitted = <<"auth-error">>
    /\ flow[1].pc = "opened"
    /\ srv[1].status = "listening"
    /\ pendingRequests[1] # NoRequest

\* C27: a listener binds the port its flow's ascending scan has reached,
\* which is free, and every lower port of the range is held by another
\* process or has carried a listener of another flow; a flow whose scan
\* passes the end of the range fails with auth-error, has stored no pending
\* request, opened no URL, and no listener is bound after its failure.
PortScanAndCleanup ==
    [][
        \A f \in Flows :
            /\ flow[f].pc = "binding" /\ flow'[f].pc = "pkce" =>
                   /\ srv'[f] = [status |-> "listening", port |-> flow[f].port]
                   /\ flow[f].port \in PortRange
                   /\ ~PortBusy(flow[f].port)
                   /\ \A q \in PortRange :
                          q < flow[f].port =>
                              \/ q \in externalBusy
                              \/ \E g \in Flows \ {f} : srv[g].port = q
            /\ flow[f].pc = "binding" /\ flow'[f].pc = "binding" =>
                   /\ flow'[f].port \in {flow[f].port, flow[f].port + 1}
                   /\ flow'[f].port # flow[f].port => PortBusy(flow[f].port)
            /\ /\ flow[f].pc = "binding"
               /\ flow[f].port > OAUTH_CALLBACK_PORT_END
               /\ flow'[f].pc = "failed"
               => /\ flow'[f].emitted =
                        <<"status-change:connecting", "auth-error">>
                  /\ flow'[f].url = NoUrl
                  /\ \A s \in States : pendingRequests'[s] # NoRequest =>
                         pendingRequests'[s].codeVerifier # f
                  /\ \A g \in Flows : ~Bound(srv', g)
    ]_vars

\* C29: once the token exchange of a state has succeeded, the events
\* emitted for its flow are status-change "connecting" and, when the email
\* lookup has ended, exactly one auth-success: with the email when the
\* lookup was answered, without it when the lookup failed. No auth-error
\* is emitted.
LookupIsBestEffort ==
    \A s \in States :
        exchange[s] = "ok" =>
            /\ flow[s].lookup = "inflight" =>
                   flow[s].emitted = <<"status-change:connecting">>
            /\ flow[s].lookup = "answered" =>
                   flow[s].emitted =
                       <<"status-change:connecting", "auth-success:email">>
            /\ flow[s].lookup = "failed" =>
                   flow[s].emitted =
                       <<"status-change:connecting", "auth-success">>
            /\ flow[s].lookup # "none"

\* C29 (case reached): the exchange of the first state succeeded and its
\* email lookup failed; auth-success was emitted without the email.
SuccessWithoutEmail ==
    /\ exchange[1] = "ok"
    /\ flow[1].lookup = "failed"
    /\ flow[1].emitted = <<"status-change:connecting", "auth-success">>

\* The requests of discoverCalendarHomeSet and the property each asks for.
DiscoveryProperty(request) ==
    IF request = "principal" THEN "current-user-principal"
    ELSE "calendar-home-set"
\* The last answer was read by discoverCalendarHomeSet and held no href
\* for the property that was asked for.
HrefNotExtracted ==
    /\ discovery.answered > 0
    /\ discovery.sent[discovery.answered] \in {"principal", "homeSet"}
    /\ propfindError(discovery.answer) = "none"
    /\ extractHref(discovery.answer.text,
                   DiscoveryProperty(discovery.sent[discovery.answered])) = ""

\* C32: when the href of the user principal or of the calendar home set
\* cannot be extracted from the answer, listCalendars has rejected with
\* not_found and the request that was answered is the last one it sent.
DiscoveryFailureIsTerminal ==
    HrefNotExtracted =>
        /\ discovery.pc = "rejected"
        /\ discovery.errorType = "not_found"
        /\ Len(discovery.sent) = discovery.answered

\* The home set answer named no href, after a principal that was found.
HomeSetNotFound ==
    /\ discovery.answered = 3
    /\ HrefNotExtracted
    /\ discovery.errorType = "not_found"

\* C33: once disconnect() has cleared the stored token, it stays absent:
\* no step of a call that was in flight stores a token again.
ClearedTokenStaysCleared ==
    [][auth = NoTokenData => auth' = NoTokenData]_vars

\* C34: when disconnectAll has resolved, every provider it removed from the
\* map has been disconnected and unloaded.
SweepDisposesWhatItDrops ==
    sweep.pc = "resolved" =>
        \A i \in sweep.dropped :
            instances[i].disconnected /\ instances[i].unloaded

\* C35: the delayed stop scheduled by a callback hit never stops the
\* listener of a flow that was started after that hit.
SelfStopOnlyOwnListener ==
    [][
        timers' < timers =>
            \A f \in Flows :
                Bound(srv, f) /\ ~Bound(srv', f) => flow[f].timersAtStart = 0
    ]_vars

\* C36: whenever getStatus() is read, isBusy() is true exactly when the
\* status is "syncing", also while a getEvents call is running.
BusyFlagAgreesWithStatus == isSyncing <=> currentStatus = "syncing"

\* C37: while a getEvents call on the provider is in progress, isBusy() is
\* true and the status is not idle, however two overlapping calls interleave.
BusyCoversOverlap ==
    fcall.pc = "fetching" \/ overlap = "fetching" =>
        isSyncing /\ currentStatus # "idle"

\* C38: a Google transparency of "transparent" or "opaque" comes back
\* unchanged when the event is converted with convertGoogleEvent and then
\* with buildPatchBody or convertIcsEventToGoogleEvent.
TransparencyRoundTrips ==
    /\ mapped.fn = "roundTrip"
    /\ mapped.input.transparency \in {"transparent", "opaque"}
    => /\ mapped.output.patchBody.transparency = mapped.input.transparency
       /\ mapped.output.googleEvent.transparency = mapped.input.transparency

\* C39: a CalDAV updateEvent whose PUT was answered returns success for
\* every 2xx status, 201 Created included, and failure for the others only.
CaldavUpdateFailsOnlyUnstored ==
    /\ wcall.op = "update" /\ wcall.provider = "caldav"
    /\ wcall.pc = "done" /\ wcall.statuses # <<>>
    => (wresult.success <=> wcall.statuses[1] \in 200..299)

\* The events auth-success and auth-error emitted for flow f by a step.
OutcomesEmitted(f) ==
    LET before == Len(flow[f].emitted)
        after == Len(flow'[f].emitted)
    IN  {i \in (before + 1)..after :
             flow'[f].emitted[i] \in {"auth-success", "auth-success:email",
                                      "auth-error"}}
\* The step emits exactly one auth-success or auth-error event.
OneOutcomeEmitted ==
    \E f \in Flows :
        /\ Cardinality(OutcomesEmitted(f)) = 1
        /\ \A g \in Flows \ {f} : OutcomesEmitted(g) = {}

\* C40: every callback the engine processes ends in exactly one auth-success
\* or auth-error event: a callback that is rejected (error parameter,
\* missing code or state, unknown state) when it is handled, an accepted
\* one when its token exchange fails or its email lookup has been answered.
CallbackEndsInEvent ==
    [][
        /\ timers' = timers + 1 /\ postCount' = postCount
               => OneOutcomeEmitted
        /\ (\E s \in States : exchange[s] = "inflight"
                                /\ exchange'[s] = "failed")
               => OneOutcomeEmitted
        /\ (\E s \in States : flow[s].lookup = "inflight"
                                /\ flow'[s].lookup # "inflight")
               => OneOutcomeEmitted
    ]_vars

\* C31: once onunload has run, the pending map stays empty, no listener is
\* bound, no token POST is issued and no subscriber is notified of any
\* event, whatever was in flight at the teardown.
TeardownIsFinal ==
    [][
        eventListeners = 0 =>
            /\ \A s \in States : pendingRequests'[s] = NoRequest
            /\ \A f \in Flows : ~Bound(srv', f)
            /\ postCount' = postCount
            /\ \A f \in Flows : flow'[f].emitted = flow[f].emitted
    ]_vars

\* C9: a pending request expires after 10 minutes. No step issues a token POST
\* for a state whose pending request was created more than
\* PENDING_REQUEST_TIMEOUT_MS earlier.
ExpiredNeverExchanged ==
    [][\A s \in States :
          postCount'[s] > postCount[s] =>
              now - pendingRequests[s].createdAt <= PENDING_REQUEST_TIMEOUT_MS]_vars

\* C10: the loopback listener is a singleton. In every reachable state, also
\* when startOAuthFlow was called again while an earlier call was still binding
\* its port, at most one loopback listener is bound.
ListenerSingleton == Cardinality({f \in Flows : Bound(srv, f)}) <= 1

\* ------------------------------------------------------------------------
\* Properties of the write operations
\* ------------------------------------------------------------------------
UpdateDone == wcall.op = "update" /\ wcall.pc = "done" /\ wcall.statuses # <<>>

\* C2: an updateEvent that supplied a version tag and whose conditional
\* request was answered 412 (the tag was stale) returns {success: false,
\* conflict: true}; one whose tag was current and whose request was accepted
\* returns {success: true} with the new version tag of the event.
StaleTagReportsConflict ==
    UpdateDone /\ wcall.tag # 0 =>
        /\ wcall.statuses[1] = 412 =>
              wresult = [success |-> FALSE, conflict |-> TRUE, etag |-> 0]
        /\ wcall.statuses[1] \in {200, 204} =>
              /\ wresult.success
              /\ wresult.etag = wcall.written
              /\ wresult.etag # wcall.tag

\* C3: when the caller supplied a version tag, every update request a
\* provider sends carries the conditional header, so a 412 leaves the remote
\* event as the concurrent writer made it.
NoUnconditionalUpdate ==
    wcall.op = "update" /\ wcall.tag # 0 =>
        \A i \in 1..Len(wcall.sent) : wcall.sent[i].ifMatch # 0

\* C4: a deleteEvent whose server response is 404 returns {success: true}.
DeleteOf404Succeeds ==
    wcall.op = "delete" /\ wcall.pc = "done" /\ wcall.statuses = <<404>> =>
        wresult.success

\* C21: the PUT of a CalDAV createEvent carries If-None-Match: *, it leaves
\* a resource that exists as it is, a 412 is returned as a conflict, and
\* success is returned for a 2xx response only.
CreateNeverOverwrites ==
    [][
        wcall'.op = "create" /\ wcall' # wcall =>
            /\ remote.exists => remote' = remote
            /\ \A i \in 1..Len(wcall'.sent) :
                   wcall'.sent[i].ifNoneMatch = "*"
            /\ wcall'.statuses = <<412>> => wresult' = Conflict
            /\ wresult'.success =>
                   /\ Len(wcall'.statuses) = 1
                   /\ wcall'.statuses[1] \in 200..299
    ]_vars

\* C21 (case reached): a create met the resource of its UID and returned
\* the conflict, the resource being what it was.
CreateCollided ==
    /\ wcall.op = "create" /\ wcall.statuses = <<412>>
    /\ wresult = Conflict
    /\ remote.exists /\ remote.content = "original"

\* C16: whenever an operation of a provider fails, the status of the
\* provider is "error" when the operation returns; here for updateEvent and
\* deleteEvent, which fail by returning success: false.
FailedWriteSetsError ==
    wcall.pc = "done" /\ ~wresult.success => currentStatus = "error"

\* C20: the plugin asks Google for the scopes calendar.readonly and
\* userinfo.email only, and no operation sends a POST, PATCH or DELETE to
\* the events of a Google calendar.
GoogleAccessReadOnly ==
    wcall.provider = "google" /\ wcall.sent # <<>> =>
        /\ googleDefaultScopes =
               {"https://www.googleapis.com/auth/calendar.readonly",
                "https://www.googleapis.com/auth/userinfo.email"}
        /\ \A i \in 1..Len(wcall.sent) :
               wcall.sent[i].method \notin {"POST", "PATCH", "DELETE"}

\* ------------------------------------------------------------------------
\* Properties of getEvents
\* ------------------------------------------------------------------------
\* The events of the calendars whose fetch succeeded, in calendar order.
EventsOfSucceeded ==
    Concat([c \in Calendars |->
              IF fcall.st[c] = "ok" THEN fcall.local[c] ELSE <<>>], fcall.n)

\* C5: a finished getEvents has not thrown and has returned exactly the
\* events of the calendars whose fetch succeeded, whichever calendars failed.
FetchIsolation ==
    fcall.pc = "done" =>
        /\ fresult.returned
        /\ ~fresult.thrown
        /\ fresult.events = EventsOfSucceeded

\* C5 (case reached): three calendars, one failed after it had delivered a
\* page, the two others succeeded and their events were returned.
OneOfThreeFailed ==
    /\ fcall.pc = "done" /\ fcall.n = 3
    /\ \E c \in 1..3 :
          /\ fcall.st[c] = "failed" /\ fcall.local[c] # <<>>
          /\ \A d \in (1..3) \ {c} : fcall.st[d] = "ok"
    /\ Len(fresult.events) >= 2

\* C22: with options.maxResults = N, getEvents returns at most N events,
\* for any number of calendars and of pages.
MaxResultsBoundsResult ==
    fresult.returned => Len(fresult.events) <= maxResults

\* C28: once the cancellation signal of a getEvents is aborted, no step of
\* that call sends an HTTP request.
NoRequestAfterAbort ==
    [][aborted /\ fcall' # fcall => fcall'.issued = 0]_vars

\* C13: a getEvents during which the cancellation signal was aborted (every
\* later loop turn observes it) ends with a cancellation error instead of
\* returning a result.
CancellationRaised ==
    fcall.pc = "done" /\ aborted => fresult.thrown /\ ~fresult.returned

\* ------------------------------------------------------------------------
\* Properties of the token handling
\* ------------------------------------------------------------------------
\* C6: a request that was sent a second time was re-sent after exactly one
\* token refresh and with the refreshed token, and no request is sent a
\* third time.
RefreshOnceThenResend ==
    /\ req.attempts <= 2
    /\ req.attempts = 2 =>
          /\ req.refreshes = 1
          /\ req.sentWith[2] # req.sentWith[1]

Boundary(tokenData) == tokenData.expiresAt - TOKEN_REFRESH_BUFFER_MS

\* C7 (as stated): ensureValidToken returns the identical token without a
\* refresh request when now < expiresAt - 5 min, and at every other time
\* returns a new token whose expiresAt is later than that of the input.
RefreshFromBoundaryOn ==
    ev.pc \in {"returned", "threw"} =>
        IF ev.at < Boundary(ev.input)
        THEN ev.pc = "returned" /\ ev.output = ev.input /\ ev.posts = 0
        ELSE /\ ev.pc = "returned"
             /\ ev.output.id # ev.input.id
             /\ ev.output.expiresAt > ev.input.expiresAt

\* C7 (amended): ensureValidToken returns the identical token without a
\* refresh request when now <= expiresAt - 5 min. Later than that it throws
\* when the token has no refresh token or the refresh fails, and otherwise
\* sends one refresh request and returns a new token that expires expires_in
\* seconds after the response, which is later than the input token whenever
\* expires_in is at least the five minutes of the buffer.
RefreshAfterBoundary ==
    /\ ev.pc = "returned" /\ ev.at <= Boundary(ev.input) =>
          ev.output = ev.input /\ ev.posts = 0
    /\ ev.pc = "returned" /\ ev.at > Boundary(ev.input) =>
          /\ ev.posts = 1
          /\ canRefreshToken(ev.input)
          /\ ev.output.id # ev.input.id
          /\ ev.output.expiresAt = ev.doneAt + ev.expiresIn * 1000
          /\ ev.expiresIn * 1000 >= TOKEN_REFRESH_BUFFER_MS =>
                ev.output.expiresAt > ev.input.expiresAt
    /\ ev.pc \in {"threw", "refreshing"} => ev.at > Boundary(ev.input)
    /\ ev.pc = "threw" /\ ev.posts = 0 => ~canRefreshToken(ev.input)

\* C7 (case reached): a call exactly at expiresAt - 5 min returned the
\* identical token.
IdenticalAtBoundary ==
    /\ ev.pc = "returned"
    /\ ev.at = Boundary(ev.input)
    /\ ev.output = ev.input
    /\ ev.posts = 0

\* C17: the request helper classifies the status of a failed response:
\* 401 as an "auth" error, 403 as "permission", 404 as "not_found" and 429
\* as "rate_limit".
StatusClassified ==
    req.pc = "done" /\ req.kind = "plain" /\ Len(req.statuses) = 1 =>
        /\ req.statuses[1] = 401 => req.outcome = "authError"
        /\ req.statuses[1] = 403 => req.outcome = "permissionError"
        /\ req.statuses[1] = 404 => req.outcome = "notFoundError"
        /\ req.statuses[1] = 429 => req.outcome = "rateLimitError"

\* C23: the stored token is replaced as a whole. Every step that changes
\* this.config.auth is the return of a refresh and stores the object the
\* refresh returned, with a new access token and the expiry of that response;
\* a refresh that fails leaves the stored token as it was and connect() is
\* false (the status is "error").
TokenReplacedWhole ==
    [][
        /\ auth' # auth =>
               /\ ev.pc = "refreshing" /\ ev'.pc = "returned"
               /\ auth' = ev'.output
               /\ auth'.id # auth.id
               /\ auth'.expiresAt = now + ev'.expiresIn * 1000
        /\ ev.pc = "refreshing" /\ ev'.pc = "threw" =>
               /\ auth' = auth
               /\ currentStatus' = "error"
    ]_vars

\* C23 (case reached): a first refresh replaced the stored token and the
\* refresh of the replacement failed; the replacement is still stored.
FailedRefreshKeepsToken ==
    /\ ev.pc = "threw"
    /\ ev.posts = 1
    /\ auth.id = 2
    /\ ev.input = auth
    /\ currentStatus = "error"

AllDayEndRoundTrip ==
    /\ conv.pc \in {"written", "read"} => conv.wire = conv.D + 1
    /\ conv.pc = "read" => conv.recovered = conv.D


ReadGivesCanonicalValues ==
    mapped.fn = "convertEvent" =>
        /\ mapped.output.status \in {"CONFIRMED", "TENTATIVE", "CANCELLED"}
        /\ mapped.output.transp \in {"OPAQUE", "TRANSPARENT"}
        /\ mapped.provider = "outlook" =>
              mapped.output.priority \in {1, 5, 9}


\* C24: the notice of an error handled by handleError is the notice of its
\* taxonomy category: it is the notice of any other error of the same type,
\* and no part of it is the message of the error.
NoticeFromCategoryAlone ==
    mapped.fn = "handleError" =>
        /\ \A other \in ProviderErrors :
               other.type = mapped.input.type =>
                   showErrorNotice(other) = mapped.output
        /\ \A i \in 1..Len(mapped.output) :
               mapped.output[i] # mapped.input.message

\* ------------------------------------------------------------------------
\* Properties of the source manager
\* ------------------------------------------------------------------------
\* C15: the manager caches one provider per source id and disposes the
\* provider on removal: a provider that was constructed and is no longer
\* cached has been disconnected and unloaded, a cached provider belongs to
\* the source id it is cached under, and getProvider of a cached id returns
\* the cached instance with the given config and constructs none.
RemovedProviderDisposed ==
    /\ \A i \in InstanceIds :
           instances[i].created /\ (\A id \in SourceIds : providers[id] # i)
               => instances[i].disconnected /\ instances[i].unloaded
    /\ \A id \in SourceIds :
           providers[id] # 0 =>
               /\ instances[providers[id]].created
               /\ instances[providers[id]].config.id = id
    /\ last.op = "getProvider" =>
           /\ providers[last.sourceId] = last.provider
           /\ instances[last.provider].config.id = last.sourceId


\* C19: once disconnect() of a Google or Outlook provider has returned, the
\* provider holds no token and its status is "disabled", whatever the
\* revocation was answered; a revokeTokens call that has settled did not
\* throw and emitted "disconnected" exactly once.
DisconnectClearsToken ==
    /\ \A i \in InstanceIds :
           instances[i].disconnected =>
               ~instances[i].config.auth /\ instances[i].status = "disabled"
    /\ last.op = "removeProvider" =>
           /\ last.emitted = last.revokeCalls
           /\ ~last.threw
           /\ last.provider # 0 => instances[last.provider].disconnected

\* C19 (case reached): the revocation of a Google token was rejected and
\* the provider was disconnected all the same.
DisconnectedAfterFailedRevoke ==
    /\ last.op = "removeProvider" /\ last.answer = "rejected"
    /\ last.revokeCalls = 1 /\ last.emitted = 1
    /\ instances[last.provider].kind = "google"
    /\ instances[last.provider].disconnected
    /\ ~instances[last.provider].config.auth

====
